---- MODULE Spec2Model ----
(***************************************************************************)
(* Model of the ts_go backend: the mdoc parser and writer, the save path   *)
(* with its backup and temporary file, the preview single-flight table and *)
(* the LRU cache of encoded previews.                                      *)
(***************************************************************************)
EXTENDS Integers, Sequences, FiniteSets, TLC

VARIABLES
    w_pc,       \* position of the writer/parser harness: "start", "written", "parsed"
    w_lines,    \* lines of the mdoc file handed to write_mdoc_with_selections
    w_sel,      \* the selections argument (zIndex -> selected)
    w_out,      \* final_lines, the content written back
    w_before,   \* frames parse_mdoc_file yields for w_lines
    w_after,    \* frames parse_mdoc_file yields for w_out
    fs,             \* the file system: path -> None (no file) or Some(lines)
    config,         \* ProjectState.config: None or Some(ScanConfig)
    tilt_series,    \* ProjectState.tilt_series: id -> TiltSeries
    frame_overrides,\* ProjectState.frame_overrides: mdocPath -> (zIndex -> selected)
    s_pc,           \* position of the save in progress ("idle" when none)
    s_req,          \* the BatchSaveRequest of the save in progress
    s_local,        \* locals of write_mdoc_with_selections: lines, final_lines
    s_start,        \* what the save found when it began: the file, the backup, the ids
    resp,           \* the response of the last handler that ended
    h_first,        \* mdocPath -> None, or the file as it was before its first save
    h_ids,          \* mdocPath -> None, or Some(the identifiers of its first parse)
    png_cache,      \* the LRUCache: [cache: entries oldest first, current_size]
    l_ret,          \* what the last LRUCache call returned
    l_used,         \* the keys put or hit since the last clear, the latest last
    m_scan,         \* the mdoc.scan_project call in progress: [pc, pending, added, status]
    g_ret,          \* the body of the get_frame response being returned
    b_req,          \* the batch_frame_operations request being answered
    req,            \* the preview requests: [pc, key, wait, out]
    inflight,       \* _inflight_tasks: task key -> the request whose future it holds
    lock,           \* _inflight_lock: None, or Some(the request that holds it)
    futures,        \* the futures made by the requests: [done, result]
    disk,           \* the disk cache: task key -> None or Some(the bytes of the file)
    png_dirs,       \* the directories get_png_path has made
    cold_runs,      \* task key -> how many times its preview was generated
    k_pc,           \* a call of cut_key or of ImageMatcher.match: "off", "start", "done"
    k_in,           \* its arguments, and for match the matcher's cache and cuts
    k_out           \* what it returned or raised

wvars == <<w_pc, w_lines, w_sel, w_out, w_before, w_after>>
kvars == <<k_pc, k_in, k_out>>
pvars == <<config, tilt_series, frame_overrides>>
svars == <<s_pc, s_req, s_local, s_start>>
mvars == <<m_scan, g_ret, b_req>>
fvars == <<fs, pvars, svars, resp, h_first, h_ids, mvars>>

lvars == <<png_cache, l_ret, l_used>>
vvars == <<req, inflight, lock, futures, disk, png_dirs, cold_runs>>

vars == <<wvars, kvars, fvars, lvars, vvars>>

----------------------------------------------------------------------------
(* Bounds *)

\* longest mdoc file, in lines
MaxLines == 4
\* ZValue integers that occur in marker lines are 1..MaxZ
MaxZ == 2
\* longest mdoc file on the modelled disk, in lines
MaxFileLines == 3
\* longest frame_ids list of a batch operation
MaxBatch == 2
\* the byte budget of the LRU cache (max_size), scaled down
LruMaxSize == 4
\* the longest bytes value put into the cache
MaxDataLen == 5
\* preview requests in one run
MaxRequests == 2

----------------------------------------------------------------------------
(* Lines of an mdoc file.  A line is <<head, arg>>: head is the text up to  *)
(* and including the first "=", arg the text after it (for a section line, *)
(* up to the closing bracket).                                             *)

None == <<>>
Some(x) == <<x>>
TheVal(o) == o[1]

SetMin(S) == CHOOSE x \in S : \A y \in S : x <= y
SetMax(S) == CHOOSE x \in S : \A y \in S : x >= y

ZTexts == {"1", "2", "3"}
IntOf == [t \in ZTexts |-> CASE t = "1" -> 1 [] t = "2" -> 2 [] t = "3" -> 3]

\* the integers written in marker lines, as text
ZArgs == {t \in ZTexts : IntOf[t] <= MaxZ}
Ids == {IntOf[t] : t \in ZArgs}

\* "[ZValue = N]", "[ZValue = x]" (no integer), "[ZValue=N]" (no blank before "=")
MarkerLines == {<<"[ZValue =", t>> : t \in ZArgs \cup {"x"}} \cup {<<"[ZValue=", "1">>}
\* "TiltAngle = 5", and a line without "="
BodyLines == {<<"TiltAngle =", "5">>, <<"DateTime", "">>}
Lines == MarkerLines \cup BodyLines

Files == UNION {[1..n -> Lines] : n \in 0..MaxLines}
Selections == UNION {[D -> BOOLEAN] : D \in SUBSET Ids}

\* str.startswith on the stripped line
StartsWith(line, prefix) ==
    CASE prefix = "[ZValue" -> line[1] \in {"[ZValue =", "[ZValue="}
      [] prefix = "[ZValue =" -> line[1] = "[ZValue ="
      [] OTHER -> FALSE

\* '=' in line
HasEquals(line) == line[1] \in {"[ZValue =", "[ZValue=", "TiltAngle =", "SubFramePath ="}

\* int(stripped.split('=')[1].split(']')[0].strip()): None stands for the
\* IndexError / ValueError the callers catch
ParseZ(line) ==
    IF HasEquals(line) /\ line[2] \in ZTexts THEN Some(IntOf[line[2]]) ELSE None

\* float(value) of the TiltAngle texts of the model
FloatOf(t) == CASE t = "5" -> 5 [] OTHER -> 0

\* dict.get(key, default)
Get(d, k, default) == IF k \in DOMAIN d THEN d[k] ELSE default

----------------------------------------------------------------------------
(* write_mdoc_with_selections: the pass over the lines *)

WriterInit ==
    [modified_lines |-> <<>>, current_frame_z |-> None, in_frame_section |-> FALSE,
     skip_frame |-> FALSE, frame_buffer |-> <<>>, header_lines |-> <<>>]

\* the flush of the previous frame when a marker line is met
FlushPrevious(st) ==
    IF st.current_frame_z # None /\ ~st.skip_frame
    THEN st.modified_lines \o st.frame_buffer
    ELSE st.modified_lines

\* one iteration of "for line in lines"
WriterStep(st, line, selections) ==
    IF st.current_frame_z = None /\ ~StartsWith(line, "[ZValue")
    THEN [st EXCEPT !.header_lines = Append(@, line)]
    ELSE IF StartsWith(line, "[ZValue")
    THEN IF ParseZ(line) = None
         THEN [st EXCEPT !.modified_lines = FlushPrevious(st),
                         !.current_frame_z = None,
                         !.skip_frame = TRUE]
         ELSE [st EXCEPT !.modified_lines = FlushPrevious(st),
                         !.current_frame_z = ParseZ(line),
                         !.skip_frame = ~Get(selections, TheVal(ParseZ(line)), TRUE),
                         !.frame_buffer = <<line>>,
                         !.in_frame_section = TRUE]
    ELSE IF st.in_frame_section
    THEN [st EXCEPT !.frame_buffer = Append(@, line)]
    ELSE st

RECURSIVE WriterLoop(_, _, _)
WriterLoop(st, lines, selections) ==
    IF lines = <<>> THEN st
    ELSE WriterLoop(WriterStep(st, Head(lines), selections), Tail(lines), selections)

\* the lines at which the writer calls selections.get, and the keys it passes,
\* in file order
LookupLine(line) == StartsWith(line, "[ZValue") /\ ParseZ(line) # None
WriterLookups(lines) ==
    LET looked == SelectSeq(lines, LookupLine)
    IN  [i \in DOMAIN looked |-> TheVal(ParseZ(looked[i]))]

\* final_lines: the last frame is flushed, then header + frames
FinalLines(lines, selections) ==
    LET st == WriterLoop(WriterInit, lines, selections)
    IN  st.header_lines \o FlushPrevious(st)

----------------------------------------------------------------------------
(* ImageMatcher and the SubFramePath values of the parser *)

\* the values of SubFramePath lines: a Windows path of a frame whose image is
\* in the image directory, and a bare file name with no image
SubFrameTexts == {"d\\f1.tif", "g.tif"}
SubFrameLines == {<<"SubFramePath =", t>> : t \in SubFrameTexts}

\* Path(value.replace('\\', '/')).name
FileName(value) == CASE value = "d\\f1.tif" -> "f1.tif" [] OTHER -> value

\* Path(filename).stem
PathStem(filename) ==
    CASE filename = "f1.tif" -> "f1" [] filename = "f1.mrc" -> "f1"
      [] filename = "g.tif" -> "g" [] OTHER -> filename

\* build_cache over an image directory that holds imgs/f1.mrc, with cuts of 0:
\* the name and the stem of each file are keys
MatcherCache == [k \in {"f1.mrc", "f1"} |-> "imgs/f1.mrc"]

\* ImageMatcher.match: the name as given, then its stem
Match(filename) ==
    IF filename \in DOMAIN MatcherCache THEN Some(MatcherCache[filename])
    ELSE IF PathStem(filename) \in DOMAIN MatcherCache
    THEN Some(MatcherCache[PathStem(filename)])
    ELSE None

\* the mrcPath a SubFramePath value gives: matched by the name without its
\* extension, then by the name, else the name itself
MatchedPath(value) ==
    IF Match(PathStem(FileName(value))) # None THEN TheVal(Match(PathStem(FileName(value))))
    ELSE IF Match(FileName(value)) # None THEN TheVal(Match(FileName(value)))
    ELSE FileName(value)

----------------------------------------------------------------------------
(* parse_mdoc_file: the pass over the lines *)

ParserInit == [frames |-> <<>>, angles |-> <<>>, current_frame |-> None, z_index |-> 0]

NewFrame(z) == [zIndex |-> z, angle |-> 0, mrcPath |-> "", selected |-> TRUE]

\* frames.append(current_frame) when a frame is open
CloseFrame(st) ==
    IF st.current_frame # None THEN Append(st.frames, TheVal(st.current_frame))
    ELSE st.frames

\* one iteration of "for line in lines"
ParserStep(st, line) ==
    IF StartsWith(line, "[ZValue =")
    THEN LET z_value == IF ParseZ(line) # None THEN TheVal(ParseZ(line)) ELSE st.z_index
         IN  [st EXCEPT !.frames = CloseFrame(st),
                        !.current_frame = Some(NewFrame(z_value)),
                        !.z_index = z_value + 1]
    ELSE IF HasEquals(line) /\ st.current_frame # None /\ line[1] = "TiltAngle ="
    THEN [st EXCEPT !.current_frame =
              Some([TheVal(st.current_frame) EXCEPT !.angle = FloatOf(line[2])]),
                    !.angles = Append(@, FloatOf(line[2]))]
    ELSE IF HasEquals(line) /\ st.current_frame # None /\ line[1] = "SubFramePath ="
    THEN [st EXCEPT !.current_frame =
              Some([TheVal(st.current_frame) EXCEPT !.mrcPath = MatchedPath(line[2])])]
    ELSE st

RECURSIVE ParserLoop(_, _)
ParserLoop(st, lines) ==
    IF lines = <<>> THEN st ELSE ParserLoop(ParserStep(st, Head(lines)), Tail(lines))

\* the frames of the returned TiltSeries; <<>> stands for the 400 "No frames found"
ParseFrames(lines) == CloseFrame(ParserLoop(ParserInit, lines))

----------------------------------------------------------------------------
(* Paths and the file system.  A path is <<directory, stem, suffix>>.      *)

MdocPaths == {<<"proj", "a", ".mdoc">>}

\* Path.with_suffix and Path.stem
WithSuffix(path, suffix) == <<path[1], path[2], suffix>>
Stem(path) == path[2]

\* backup = mdoc_path.with_suffix('.mdoc.bak')
BackupPath(path) == WithSuffix(path, ".mdoc.bak")
TempPathInPlace(path) == path

\* temp_path = mdoc_path.with_suffix('.mdoc.tmp')
TempPath(path) == WithSuffix(path, ".mdoc.tmp")

FsPaths == MdocPaths \cup {BackupPath(p) : p \in MdocPaths} \cup {TempPath(p) : p \in MdocPaths}

\* the files a project directory holds at start: marker lines that the
\* parser reads, and a body line
DiskLines == {l \in Lines : l[1] \in {"[ZValue =", "TiltAngle ="}}
DiskFiles == UNION {[1..n -> DiskLines] : n \in 1..MaxFileLines}

Exists(f, path) == f[path] # None
Content(f, path) == TheVal(f[path])

\* dict[k] = v and del dict[k]
Put(d, k, v) == [x \in DOMAIN d \cup {k} |-> IF x = k THEN v ELSE d[x]]
Del(d, k) == [x \in DOMAIN d \ {k} |-> d[x]]

\* shutil.copy2(src, dst)
CopyFile(f, src, dst) == [f EXCEPT ![dst] = f[src]]
BackupAlways(f, path) == TRUE

\* "if not backup.exists()"
BackupNeeded(f, path) == ~Exists(f, BackupPath(path))
\* the backup step of write_mdoc_with_selections
DoBackup(f, path) == IF BackupNeeded(f, path) THEN CopyFile(f, path, BackupPath(path)) ELSE f
\* open(temp_path, 'w') followed by writelines of the given lines
WriteTemp(f, path, lines) == [f EXCEPT ![TempPath(path)] = Some(lines)]
\* temp_path.replace(mdoc_path)
ReplaceFile(f, src, dst) == [[f EXCEPT ![src] = None] EXCEPT ![dst] = f[src]]
CleanupTempSkipped(f, path) == f

\* the except branch: "if temp_path.exists(): temp_path.unlink()"
CleanupTemp(f, path) ==
    IF Exists(f, TempPath(path)) THEN [f EXCEPT ![TempPath(path)] = None] ELSE f

\* raise HTTPException(status_code=409, ...) of the except branch
ExceptStatus == 409

\* the proper prefixes of a sequence: what a failed writelines leaves behind
Prefixes(lines) == {SubSeq(lines, 1, n) : n \in 0..Len(lines)}

\* write_mdoc_with_selections as one call; failed: an I/O error inside the try
WriteMdocWithSelections(f, path, selections, failed) ==
    IF ~Exists(f, path) THEN [fs |-> f, status |-> 404]
    ELSE IF failed THEN [fs |-> CleanupTemp(DoBackup(f, path), path), status |-> ExceptStatus]
    ELSE [fs |-> ReplaceFile(WriteTemp(DoBackup(f, path), path,
                                       FinalLines(Content(f, path), selections)),
                             TempPath(path), path),
          status |-> 200]

----------------------------------------------------------------------------
(* parse_mdoc_file as a call, and ProjectState *)

SeqMin(q) == SetMin({q[i] : i \in DOMAIN q})
SeqMax(q) == SetMax({q[i] : i \in DOMAIN q})

\* angle_range = (min(angles), max(angles)) if angles else (0.0, 0.0)
AngleRange(angles) == IF angles = <<>> THEN <<0, 0>> ELSE <<SeqMin(angles), SeqMax(angles)>>

\* the identifiers of a list of frames, in order
FrameIds(frames) == [k \in DOMAIN frames |-> frames[k].zIndex]

\* 404 without the file, 400 without frames, else the TiltSeries
ParseMdocFile(f, path) ==
    IF ~Exists(f, path) THEN [status |-> 404, ts |-> None]
    ELSE IF ParseFrames(Content(f, path)) = <<>> THEN [status |-> 400, ts |-> None]
    ELSE [status |-> 200,
          ts |-> Some([id |-> Stem(path), mdocPath |-> path,
                       frames |-> ParseFrames(Content(f, path)),
                       angleRange |-> AngleRange(ParserLoop(ParserInit, Content(f, path)).angles)])]

\* ProjectState.add_tilt_series
AddTiltSeries(series, ts) == Put(series, ts.id, ts)

\* a get_frame_override that does not look at the overlay
GetFrameOverrideBase(overrides, path, z_index, original) == original

\* ProjectState.get_frame_override
GetFrameOverride(overrides, path, z_index, original) ==
    IF path \notin DOMAIN overrides THEN original ELSE Get(overrides[path], z_index, original)

\* ProjectState.get_all_overrides
GetAllOverrides(overrides, path) == Get(overrides, path, <<>>)

\* ProjectState.set_frame_override
SetFrameOverride(overrides, path, map) == Put(overrides, path, map)

\* ProjectState.clear_overrides
ClearOverrides(overrides, path) == IF path \in DOMAIN overrides THEN Del(overrides, path) ELSE overrides

\* the series whose mdocPath is the request's; None when there is none
SeriesByPath(series, path) ==
    IF \E id \in DOMAIN series : series[id].mdocPath = path
    THEN Some(series[CHOOSE id \in DOMAIN series : series[id].mdocPath = path])
    ELSE None

\* next((f for f in ts.frames if f.zIndex == frame_id), None)
FindFrame(ts, frame_id) ==
    IF \E k \in DOMAIN ts.frames : ts.frames[k].zIndex = frame_id
    THEN Some(ts.frames[SetMin({k \in DOMAIN ts.frames : ts.frames[k].zIndex = frame_id})])
    ELSE None

\* mdoc_dir.rglob("*.mdoc"): the mdoc files the disk holds
MdocFilesOn(f) == {q \in DOMAIN f : q[3] = ".mdoc" /\ Exists(f, q)}

\* the orders in which rglob may yield a set of files
FileOrders(paths) ==
    {o \in [1..Cardinality(paths) -> paths] : \A i, j \in DOMAIN o : o[i] = o[j] => i = j}

\* the loop of project.scan_project over the mdoc files found, in the order
\* they are found
RECURSIVE IngestAll(_, _, _)
IngestAll(series, f, order) ==
    IF order = <<>> THEN series
    ELSE LET parsed == ParseMdocFile(f, Head(order))
         IN  IngestAll(IF parsed.status = 200 THEN AddTiltSeries(series, TheVal(parsed.ts))
                       ELSE series,
                       f, Tail(order))

\* the local list tilt_series of project.scan_project, which it returns with
\* its length as total
RECURSIVE ScannedList(_, _)
ScannedList(f, order) ==
    IF order = <<>> THEN <<>>
    ELSE LET parsed == ParseMdocFile(f, Head(order))
         IN  (IF parsed.status = 200 THEN <<TheVal(parsed.ts)>> ELSE <<>>)
                 \o ScannedList(f, Tail(order))

\* what batch_save does once the writer has returned: clear the overlay,
\* parse again, store the series; the response status is the parser's
SeriesAfterSave(series, cfg, f, path) ==
    IF cfg # None /\ ParseMdocFile(f, path).status = 200
    THEN AddTiltSeries(series, TheVal(ParseMdocFile(f, path).ts))
    ELSE series

StatusAfterSave(cfg, f, path) == IF cfg # None THEN ParseMdocFile(f, path).status ELSE 200

NoSave == [mdocPath |-> CHOOSE q \in MdocPaths : TRUE, selections |-> <<>>]
NoStart == [file |-> None, bak |-> None, ids |-> <<>>]
NoLocal == [lines |-> <<>>, final_lines |-> <<>>, error |-> ""]
NoResp == [op |-> "none", status |-> 0]
NoScan == [pc |-> "idle", pending |-> {}, added |-> {}, status |-> 0]

HistoryIds(h, series) ==
    [q \in MdocPaths |->
        IF h[q] # None THEN h[q]
        ELSE IF SeriesByPath(series, q) # None
        THEN Some([k \in DOMAIN TheVal(SeriesByPath(series, q)).frames |->
                      TheVal(SeriesByPath(series, q)).frames[k].zIndex])
        ELSE None]

\* the state after construction, on a disk that holds the mdoc files
FInit ==
    /\ fs \in {g \in [FsPaths -> {None} \cup {Some(c) : c \in DiskFiles}] :
                 \A q \in FsPaths : Exists(g, q) <=> q \in MdocPaths}
    /\ config = None
    /\ tilt_series = <<>>
    /\ frame_overrides = <<>>
    /\ s_pc = "idle"
    /\ s_req = NoSave
    /\ s_local = NoLocal
    /\ s_start = NoStart
    /\ resp = NoResp
    /\ h_first = [q \in MdocPaths |-> None]
    /\ h_ids = [q \in MdocPaths |-> None]
    /\ m_scan = NoScan
    /\ g_ret = None
    /\ b_req = None

\* the same variables, held still while another part of the program is examined
FQuiet ==
    /\ fs = [q \in FsPaths |-> None]
    /\ config = None
    /\ tilt_series = <<>>
    /\ frame_overrides = <<>>
    /\ s_pc = "idle"
    /\ s_req = NoSave
    /\ s_local = NoLocal
    /\ s_start = NoStart
    /\ resp = NoResp
    /\ h_first = [q \in MdocPaths |-> None]
    /\ h_ids = [q \in MdocPaths |-> None]
    /\ m_scan = NoScan
    /\ g_ret = None
    /\ b_req = None

WQuiet ==
    /\ w_pc = "off"
    /\ w_lines = <<>>
    /\ w_sel = <<>>
    /\ w_out = <<>>
    /\ w_before = <<>>
    /\ w_after = <<>>

\* no call of cut_key or match is looked at
KQuiet ==
    /\ k_pc = "off"
    /\ k_in = <<>>
    /\ k_out = <<>>

\* the configurations a scan request carries, and the mdoc_dir each names;
\* "proj" is the one directory on the disk
ScanConfigs == {"config", "config_gone"}
MdocDir(cfg) == IF cfg = "config" THEN "proj" ELSE "gone"
DirExists(dir) == dir = "proj"

\* project.scan_project: set_config, then 404 when mdoc_dir does not exist,
\* else parse and ingest every *.mdoc file
ScanProjectIn(cfg, order) ==
    /\ s_pc = "idle"
    /\ config' = Some(cfg)
    /\ tilt_series' = IF DirExists(MdocDir(cfg))
                      THEN IngestAll(<<>>, fs, order)
                      ELSE <<>>
    /\ frame_overrides' = <<>>
    /\ resp' = [op |-> "scan",
                status |-> IF DirExists(MdocDir(cfg)) THEN 200 ELSE 404]
    /\ s_pc' = "return"
    /\ h_ids' = HistoryIds(h_ids, tilt_series')
    /\ UNCHANGED <<fs, s_req, s_local, s_start, h_first, wvars, kvars, lvars, vvars, mvars>>

\* the files come in whatever order the directory gives them
ScanProjectWith(cfg) ==
    \E order \in FileOrders(MdocFilesOn(fs)) : ScanProjectIn(cfg, order)

\* the scan of the directory that exists
ScanProject == ScanProjectWith("config")

\* the handler returns: its response is sent and its locals are gone
Return ==
    /\ s_pc = "return"
    /\ s_pc' = "idle"
    /\ s_req' = NoSave
    /\ s_local' = NoLocal
    /\ s_start' = NoStart
    /\ resp' = NoResp
    /\ g_ret' = None
    /\ b_req' = None
    /\ UNCHANGED <<fs, pvars, h_first, h_ids, wvars, kvars, lvars, vvars, m_scan>>

----------------------------------------------------------------------------
(* LRUCache.  An entry is [key, data, size]; data is [bytes, len].         *)

\* len(data)
Len8(data) == data.len

\* LRUCache._key: the md5 of the four values joined; one key per four-tuple
CacheKey(ts_id, frame_id, bin, quality) == <<ts_id, frame_id, bin, quality>>

EmptyCache == [cache |-> <<>>, current_size |-> 0]

HasKey(c, key) == \E i \in DOMAIN c.cache : c.cache[i].key = key
IndexOf(c, key) == CHOOSE i \in DOMAIN c.cache : c.cache[i].key = key
Without(q, i) == SubSeq(q, 1, i - 1) \o SubSeq(q, i + 1, Len(q))

\* a get that leaves the order of the entries alone
CacheAfterGetInPlace(c, key) == c

\* LRUCache.get: the cache after the call (a hit moves to the end)
CacheAfterGet(c, key) ==
    IF HasKey(c, key)
    THEN [c EXCEPT !.cache = Append(Without(c.cache, IndexOf(c, key)),
                                    c.cache[IndexOf(c, key)])]
    ELSE c

\* a get that finds nothing
GetResultMiss(c, key) == None

\* LRUCache.get: the value returned (None on a miss)
GetResult(c, key) == IF HasKey(c, key) THEN Some(c.cache[IndexOf(c, key)].data) ELSE None

\* a removal that leaves the accounted size as it was
RemoveExistingKeepSize(c, key) ==
    IF HasKey(c, key) THEN [c EXCEPT !.cache = Without(c.cache, IndexOf(c, key))] ELSE c

\* put, "Remove if exists"
RemoveExisting(c, key) ==
    IF HasKey(c, key)
    THEN [cache |-> Without(c.cache, IndexOf(c, key)),
          current_size |-> c.current_size - c.cache[IndexOf(c, key)].size]
    ELSE c

\* put, "Evict if needed": popitem(last=False) while the new entry does not fit
RECURSIVE Evict(_, _)
Evict(c, size) ==
    IF c.current_size + size > LruMaxSize /\ c.cache # <<>>
    THEN Evict([cache |-> Tail(c.cache),
                current_size |-> c.current_size - Head(c.cache).size], size)
    ELSE c

\* LRUCache.put
CacheAfterPut(c, key, data) ==
    LET evicted == Evict(RemoveExisting(c, key), Len8(data))
    IN  [cache |-> Append(evicted.cache, [key |-> key, data |-> data, size |-> Len8(data)]),
         current_size |-> evicted.current_size + Len8(data)]

\* LRUCache.clear
CacheAfterClear(c) == EmptyCache

\* the order of use: a key that is put or hit becomes the latest
Touch(used, key) == SelectSeq(used, LAMBDA k : k # key) \o <<key>>
UsedAfterGet(c, used, key) == IF HasKey(c, key) THEN Touch(used, key) ELSE used

LruKeys == {CacheKey("a", z, 8, 90) : z \in 1..MaxZ} \cup {CacheKey("a", 1, 4, 90)}
LruDatas == {[bytes |-> "png", len |-> n] : n \in 1..MaxDataLen}

\* no preview request has been made
VQuiet ==
    /\ req = <<>>
    /\ inflight = <<>>
    /\ lock = None
    /\ futures = <<>>
    /\ disk = <<>>
    /\ png_dirs = {}
    /\ cold_runs = <<>>

LQuiet ==
    /\ png_cache = EmptyCache
    /\ l_ret = None
    /\ l_used = <<>>

LruGet(key) ==
    /\ png_cache' = CacheAfterGet(png_cache, key)
    /\ l_ret' = GetResult(png_cache, key)
    /\ l_used' = UsedAfterGet(png_cache, l_used, key)
    /\ UNCHANGED <<wvars, kvars, fvars, vvars>>

LruPut(key, data) ==
    /\ png_cache' = CacheAfterPut(png_cache, key, data)
    /\ l_ret' = None
    /\ l_used' = Touch(l_used, key)
    /\ UNCHANGED <<wvars, kvars, fvars, vvars>>

LruClear ==
    /\ png_cache' = CacheAfterClear(png_cache)
    /\ l_ret' = None
    /\ l_used' = <<>>
    /\ UNCHANGED <<wvars, kvars, fvars, vvars>>

LNext ==
    \/ \E key \in LruKeys : LruGet(key)
    \/ \E key \in LruKeys, data \in LruDatas : LruPut(key, data)
    \/ LruClear

LInit == LQuiet /\ WQuiet /\ KQuiet /\ FQuiet /\ VQuiet

\* any sequence of get, put and clear on the cache
SpecL == LInit /\ [][LNext]_vars

----------------------------------------------------------------------------
(* get_preview.  The handlers run side by side, as the lock around the     *)
(* in-flight table supposes; a step is what one handler does between two   *)
(* points where another may run: the locked block, each cache or file      *)
(* access, the wait for a future.                                          *)

Requests == 1..MaxRequests

\* the series the requests are about: frame 1 has an image, frame 2 names a
\* file that cannot be read
PreviewSeries ==
    [id |-> "a", mdocPath |-> CHOOSE q \in MdocPaths : TRUE,
     frames |-> <<[zIndex |-> 1, angle |-> 0, mrcPath |-> "img1.mrc", selected |-> TRUE],
                  [zIndex |-> 2, angle |-> 5, mrcPath |-> "frame2.tif", selected |-> TRUE]>>,
     angleRange |-> <<0, 5>>]

\* (ts_id, frame_id, bin, quality) of the requests: a frame with an image, a
\* frame whose image cannot be read, a frame the series does not have, a
\* series the project does not have, a bin that is not allowed, and a quality
\* that is not allowed
PreviewKeys ==
    {<<"a", 1, 8, 90>>, <<"a", 2, 8, 90>>, <<"a", 9, 8, 90>>, <<"z", 1, 8, 90>>,
     <<"a", 1, 3, 90>>, <<"a", 1, 8, 101>>}

\* read_image: None for a file that cannot be read
ReadImage(path) == IF path = "img1.mrc" THEN Some(<<"image", path>>) ELSE None

\* bin_ndarray, autocontrast_minmax and encode_png: the bytes depend on the
\* image and the bin, not on the quality
EncodePng(img, bin) == [bytes |-> <<"png", img, bin>>, len |-> 1]

\* a check that lets every request through
InvalidParamsNever(key) == FALSE

\* "bin not in [1, 2, 4, 8]" or "quality < 1 or quality > 100"
InvalidParams(key) == key[3] \notin {1, 2, 4, 8} \/ key[4] < 1 \/ key[4] > 100

\* Response(content=data, media_type="image/png") and a raised HTTPException
Response(data) == [status |-> 200, content |-> Some(data.bytes)]
HttpError(status) == [status |-> status, content |-> None]

\* the png_dir of get_png_path
PngDir(key) == <<key[1], key[3]>>

NoFuture == [done |-> FALSE, result |-> None, made |-> FALSE]

\* future.set_result(...)
SetResult(fut, r, result) == [fut EXCEPT ![r] = [done |-> TRUE, result |-> Some(result), made |-> TRUE]]

\* the parameter checks
PreviewValidate(r) ==
    /\ req[r].pc = "new"
    /\ req' = IF InvalidParams(req[r].key)
              THEN [req EXCEPT ![r].pc = "done", ![r].out = Some(HttpError(400))]
              ELSE [req EXCEPT ![r].pc = "enter"]
    /\ UNCHANGED <<inflight, lock, futures, disk, png_dirs, cold_runs, png_cache, l_ret, l_used,
                   wvars, kvars, fvars>>

\* "with _inflight_lock": wait on the entry of the key when there is one
\* (the lock stays held during the wait), else make a future and enter it
PreviewEnter(r) ==
    /\ req[r].pc = "enter"
    /\ lock = None
    /\ IF req[r].key \in DOMAIN inflight
       THEN /\ lock' = Some(r)
            /\ req' = [req EXCEPT ![r].pc = "await", ![r].wait = inflight[req[r].key]]
            /\ UNCHANGED <<inflight, futures>>
       ELSE /\ futures' = [futures EXCEPT ![r] = [done |-> FALSE, result |-> None, made |-> TRUE]]
            /\ inflight' = Put(inflight, req[r].key, r)
            /\ req' = [req EXCEPT ![r].pc = "mem"]
            /\ UNCHANGED lock
    /\ UNCHANGED <<disk, png_dirs, cold_runs, png_cache, l_ret, l_used, wvars, kvars, fvars>>

\* "return await _inflight_tasks[task_key]": resumes once the future has a result
PreviewAwait(r) ==
    /\ req[r].pc = "await"
    /\ futures[req[r].wait].done
    /\ req' = [req EXCEPT ![r].pc = "done", ![r].out = futures[req[r].wait].result]
    /\ lock' = None
    /\ UNCHANGED <<inflight, futures, disk, png_dirs, cold_runs, png_cache, l_ret, l_used, wvars, kvars, fvars>>

\* "Check memory cache"
PreviewMemory(r) ==
    /\ req[r].pc = "mem"
    /\ png_cache' = CacheAfterGet(png_cache, req[r].key)
    /\ l_used' = UsedAfterGet(png_cache, l_used, req[r].key)
    /\ IF GetResult(png_cache, req[r].key) # None
       THEN /\ futures' = SetResult(futures, r, Response(TheVal(GetResult(png_cache, req[r].key))))
            /\ req' = [req EXCEPT ![r].pc = "cleanup",
                         ![r].out = Some(Response(TheVal(GetResult(png_cache, req[r].key))))]
       ELSE /\ req' = [req EXCEPT ![r].pc = "disk"]
            /\ UNCHANGED futures
    /\ UNCHANGED <<inflight, lock, disk, png_dirs, cold_runs, l_ret, wvars, kvars, fvars>>

\* "Check disk cache": get_png_path (400 without a config, else the directory
\* is made), then the file is read when it exists
PreviewDisk(r) ==
    /\ req[r].pc = "disk"
    /\ IF config = None
       THEN /\ req' = [req EXCEPT ![r].pc = "cleanup", ![r].out = Some(HttpError(400))]
            /\ UNCHANGED <<png_dirs, png_cache, l_used, futures>>
       ELSE /\ png_dirs' = png_dirs \cup {PngDir(req[r].key)}
            /\ IF disk[req[r].key] # None
               THEN /\ png_cache' = CacheAfterPut(png_cache, req[r].key, TheVal(disk[req[r].key]))
                    /\ l_used' = Touch(l_used, req[r].key)
                    /\ futures' = SetResult(futures, r, Response(TheVal(disk[req[r].key])))
                    /\ req' = [req EXCEPT ![r].pc = "cleanup",
                                 ![r].out = Some(Response(TheVal(disk[req[r].key])))]
               ELSE /\ req' = [req EXCEPT ![r].pc = "resolve"]
                    /\ UNCHANGED <<png_cache, l_used, futures>>
    /\ UNCHANGED <<inflight, lock, disk, cold_runs, l_ret, wvars, kvars, fvars>>

\* "Generate PNG": the series and the frame, 404 when either is missing
PreviewResolve(r) ==
    /\ req[r].pc = "resolve"
    /\ req' = IF req[r].key[1] \notin DOMAIN tilt_series
                 \/ FindFrame(tilt_series[req[r].key[1]], req[r].key[2]) = None
              THEN [req EXCEPT ![r].pc = "cleanup", ![r].out = Some(HttpError(404))]
              ELSE [req EXCEPT ![r].pc = "read"]
    /\ UNCHANGED <<inflight, lock, futures, disk, png_dirs, cold_runs, png_cache, l_ret, l_used,
                   wvars, kvars, fvars>>

\* read_image, 404 when it returns None; then binning and autocontrast
PreviewRead(r) ==
    /\ req[r].pc = "read"
    /\ LET frame == TheVal(FindFrame(tilt_series[req[r].key[1]], req[r].key[2]))
       IN  IF ReadImage(frame.mrcPath) = None
           THEN /\ req' = [req EXCEPT ![r].pc = "cleanup", ![r].out = Some(HttpError(404))]
                /\ UNCHANGED cold_runs
           ELSE /\ req' = [req EXCEPT ![r].pc = "save"]
                /\ cold_runs' = [cold_runs EXCEPT ![req[r].key] = @ + 1]
    /\ UNCHANGED <<inflight, lock, futures, disk, png_dirs, png_cache, l_ret, l_used, wvars, kvars, fvars>>

\* save_png: the file is written, or the write raises and the request ends
\* 500; "wrote" records which of the two happened
PreviewSave(r) ==
    /\ req[r].pc = "save"
    /\ LET frame == TheVal(FindFrame(tilt_series[req[r].key[1]], req[r].key[2]))
           data == EncodePng(TheVal(ReadImage(frame.mrcPath)), req[r].key[3])
       IN  \E ok \in BOOLEAN :
             IF ok
             THEN /\ disk' = [disk EXCEPT ![req[r].key] = Some(data)]
                  /\ req' = [req EXCEPT ![r].pc = "encode", ![r].wrote = "ok"]
             ELSE /\ req' = [req EXCEPT ![r].pc = "cleanup", ![r].out = Some(HttpError(500)),
                                       ![r].wrote = "failed"]
                  /\ UNCHANGED disk
    /\ UNCHANGED <<inflight, lock, futures, png_dirs, cold_runs, png_cache, l_ret, l_used, wvars, kvars, fvars>>

\* encode_png, png_cache.put, future.set_result
PreviewEncode(r) ==
    /\ req[r].pc = "encode"
    /\ LET frame == TheVal(FindFrame(tilt_series[req[r].key[1]], req[r].key[2]))
           data == EncodePng(TheVal(ReadImage(frame.mrcPath)), req[r].key[3])
       IN  /\ png_cache' = CacheAfterPut(png_cache, req[r].key, data)
           /\ l_used' = Touch(l_used, req[r].key)
           /\ futures' = SetResult(futures, r, Response(data))
           /\ req' = [req EXCEPT ![r].pc = "cleanup", ![r].out = Some(Response(data))]
    /\ UNCHANGED <<inflight, lock, disk, png_dirs, cold_runs, l_ret, wvars, kvars, fvars>>

\* a handler without the finally block: the entry stays
PreviewCleanupKeep(r) ==
    /\ req[r].pc = "cleanup"
    /\ lock = None
    /\ req' = [req EXCEPT ![r].pc = "done"]
    /\ UNCHANGED <<inflight, lock, futures, disk, png_dirs, cold_runs, png_cache, l_ret, l_used,
                   wvars, kvars, fvars>>

\* the finally block: the entry of the key is removed under the lock
PreviewCleanup(r) ==
    /\ req[r].pc = "cleanup"
    /\ lock = None
    /\ inflight' = IF req[r].key \in DOMAIN inflight THEN Del(inflight, req[r].key) ELSE inflight
    /\ req' = [req EXCEPT ![r].pc = "done"]
    /\ UNCHANGED <<lock, futures, disk, png_dirs, cold_runs, png_cache, l_ret, l_used, wvars, kvars, fvars>>

PreviewStep(r) ==
    \/ PreviewValidate(r)
    \/ PreviewEnter(r)
    \/ PreviewAwait(r)
    \/ PreviewMemory(r)
    \/ PreviewDisk(r)
    \/ PreviewResolve(r)
    \/ PreviewRead(r)
    \/ PreviewSave(r)
    \/ PreviewEncode(r)
    \/ PreviewCleanup(r)

VNext == \E r \in Requests : PreviewStep(r)

\* a scanned project, empty caches, and the requests that have arrived
VInit ==
    /\ req \in [Requests -> {[pc |-> "new", key |-> k, wait |-> 0, out |-> None, wrote |-> "no"] : k \in PreviewKeys}]
    /\ inflight = <<>>
    /\ lock = None
    /\ futures = [r \in Requests |-> NoFuture]
    /\ disk = [k \in PreviewKeys |-> None]
    /\ png_dirs = {}
    /\ cold_runs = [k \in PreviewKeys |-> 0]
    /\ LQuiet
    /\ WQuiet /\ KQuiet
    /\ fs = [q \in FsPaths |-> None]
    /\ config = Some("config")
    /\ tilt_series = Put(<<>>, PreviewSeries.id, PreviewSeries)
    /\ frame_overrides = <<>>
    /\ s_pc = "idle"
    /\ s_req = NoSave
    /\ s_local = NoLocal
    /\ s_start = NoStart
    /\ resp = NoResp
    /\ h_first = [q \in MdocPaths |-> None]
    /\ h_ids = [q \in MdocPaths |-> None]
    /\ m_scan = NoScan
    /\ g_ret = None
    /\ b_req = None

\* preview requests side by side
SpecV == VInit /\ [][VNext]_vars

\* the same, every request that can take a step taking it in the end
SpecVFair == VInit /\ [][VNext]_vars /\ \A r \in Requests : WF_vars(PreviewStep(r))

\* the PNG files an earlier run of the server has left in png_dir: of the
\* frame with an image and of the frame whose image can no longer be read
StoredPng == [bytes |-> <<"png", "stored">>, len |-> 1]
StoredKeys == {<<"a", 1, 8, 90>>, <<"a", 2, 8, 90>>}

\* the server starts on a disk cache that may hold files
WarmInit ==
    /\ req \in [Requests -> {[pc |-> "new", key |-> k, wait |-> 0, out |-> None, wrote |-> "no"] : k \in PreviewKeys}]
    /\ inflight = <<>>
    /\ lock = None
    /\ futures = [r \in Requests |-> NoFuture]
    /\ \E K \in SUBSET StoredKeys :
           disk = [k \in PreviewKeys |-> IF k \in K THEN Some(StoredPng) ELSE None]
    /\ png_dirs = {}
    /\ cold_runs = [k \in PreviewKeys |-> 0]
    /\ LQuiet
    /\ WQuiet /\ KQuiet
    /\ fs = [q \in FsPaths |-> None]
    /\ config = Some("config")
    /\ tilt_series = Put(<<>>, PreviewSeries.id, PreviewSeries)
    /\ frame_overrides = <<>>
    /\ s_pc = "idle"
    /\ s_req = NoSave
    /\ s_local = NoLocal
    /\ s_start = NoStart
    /\ resp = NoResp
    /\ h_first = [q \in MdocPaths |-> None]
    /\ h_ids = [q \in MdocPaths |-> None]
    /\ m_scan = NoScan
    /\ g_ret = None
    /\ b_req = None

SpecWarm == WarmInit /\ [][VNext]_vars

----------------------------------------------------------------------------
(* batch_save and write_mdoc_with_selections, one file operation at a time *)

\* batch_save up to the writer's existence check
BatchSaveBegin(path, selections) ==
    /\ s_pc = "idle"
    /\ s_req' = [mdocPath |-> path, selections |-> selections]
    /\ IF SeriesByPath(tilt_series, path) = None \/ ~Exists(fs, path)
       THEN /\ resp' = [op |-> "save", status |-> 404]
            /\ s_pc' = "return"
            /\ UNCHANGED <<s_start, h_first>>
       ELSE /\ s_pc' = "backup"
            /\ s_start' = [file |-> fs[path], bak |-> fs[BackupPath(path)],
                           ids |-> FrameIds(TheVal(SeriesByPath(tilt_series, path)).frames)]
            /\ h_first' = IF h_first[path] = None THEN [h_first EXCEPT ![path] = fs[path]]
                          ELSE h_first
            /\ UNCHANGED resp
    /\ UNCHANGED <<fs, pvars, s_local, h_ids, wvars, kvars, lvars, vvars, mvars>>

\* the backup, made only when there is none
WriterBackup ==
    /\ s_pc = "backup"
    /\ fs' = DoBackup(fs, s_req.mdocPath)
    /\ s_pc' = "read"
    /\ UNCHANGED <<pvars, s_req, s_local, s_start, resp, h_first, h_ids, wvars, kvars, lvars, vvars, mvars>>

\* open, readlines and the pass over the lines
WriterRead ==
    /\ s_pc = "read"
    /\ \E ok \in BOOLEAN :
         IF ok
         THEN /\ s_local' = [lines |-> Content(fs, s_req.mdocPath),
                             final_lines |-> FinalLines(Content(fs, s_req.mdocPath),
                                                        s_req.selections),
                             error |-> ""]
              /\ s_pc' = "open_tmp"
         ELSE /\ s_pc' = "except"
              /\ s_local' = [s_local EXCEPT !.error = "read"]
    /\ UNCHANGED <<fs, pvars, s_req, s_start, resp, h_first, h_ids, wvars, kvars, lvars, vvars, mvars>>

\* open(temp_path, 'w'): the temporary file exists and is empty
WriterOpenTemp ==
    /\ s_pc = "open_tmp"
    /\ \E ok \in BOOLEAN :
         IF ok
         THEN /\ fs' = WriteTemp(fs, s_req.mdocPath, <<>>)
              /\ s_pc' = "write_tmp"
              /\ UNCHANGED s_local
         ELSE /\ s_pc' = "except"
              /\ s_local' = [s_local EXCEPT !.error = "open"]
              /\ UNCHANGED fs
    /\ UNCHANGED <<pvars, s_req, s_start, resp, h_first, h_ids, wvars, kvars, lvars, vvars, mvars>>

\* f.writelines(final_lines): all of it, or a part of it and an error
WriterWriteTemp ==
    /\ s_pc = "write_tmp"
    /\ \E written \in Prefixes(s_local.final_lines) :
         /\ fs' = WriteTemp(fs, s_req.mdocPath, written)
         /\ s_pc' = IF written = s_local.final_lines THEN "replace" ELSE "except"
         /\ s_local' = IF written = s_local.final_lines THEN s_local
                        ELSE [s_local EXCEPT !.error = "write"]
    /\ UNCHANGED <<pvars, s_req, s_start, resp, h_first, h_ids, wvars, kvars, lvars, vvars, mvars>>

\* temp_path.replace(mdoc_path)
WriterReplace ==
    /\ s_pc = "replace"
    /\ \E ok \in BOOLEAN :
         IF ok
         THEN /\ fs' = ReplaceFile(fs, TempPath(s_req.mdocPath), s_req.mdocPath)
              /\ s_pc' = "finish"
              /\ UNCHANGED s_local
         ELSE /\ s_pc' = "except"
              /\ s_local' = [s_local EXCEPT !.error = "replace"]
              /\ UNCHANGED fs
    /\ UNCHANGED <<pvars, s_req, s_start, resp, h_first, h_ids, wvars, kvars, lvars, vvars, mvars>>

\* the except branch: remove the temporary file, raise 409
WriterExcept ==
    /\ s_pc = "except"
    /\ fs' = CleanupTemp(fs, s_req.mdocPath)
    /\ resp' = [op |-> "save", status |-> ExceptStatus]
    /\ s_pc' = "return"
    /\ UNCHANGED <<pvars, s_req, s_local, s_start, h_first, h_ids, wvars, kvars, lvars, vvars, mvars>>

\* batch_save after the writer has returned
BatchSaveFinish ==
    /\ s_pc = "finish"
    /\ frame_overrides' = ClearOverrides(frame_overrides, s_req.mdocPath)
    /\ tilt_series' = SeriesAfterSave(tilt_series, config, fs, s_req.mdocPath)
    /\ resp' = [op |-> "save", status |-> StatusAfterSave(config, fs, s_req.mdocPath)]
    /\ s_pc' = "return"
    /\ UNCHANGED <<fs, config, s_req, s_local, s_start, h_first, h_ids, wvars, kvars, lvars, vvars, mvars>>

SNext ==
    \/ ScanProject
    \/ \E path \in MdocPaths, selections \in Selections : BatchSaveBegin(path, selections)
    \/ WriterBackup
    \/ WriterRead
    \/ WriterOpenTemp
    \/ WriterWriteTemp
    \/ WriterReplace
    \/ WriterExcept
    \/ BatchSaveFinish
    \/ Return

SInit == FInit /\ WQuiet /\ KQuiet /\ LQuiet /\ VQuiet

\* saves of the files on disk, followed one file operation at a time
SpecS == SInit /\ [][SNext]_vars

----------------------------------------------------------------------------
(* The edit and save handlers, each as one step *)

TsIdInputs == {Stem(q) : q \in MdocPaths} \cup {"unknown"}
FrameIdInputs == 0..MaxZ
FrameIdLists == UNION {[1..n -> FrameIdInputs] : n \in 0..MaxBatch}
Operations == {"select", "deselect", "invert", "reset"}

\* a handler that ends at once with a status and leaves the state alone
Answer(op, status) ==
    /\ resp' = [op |-> op, status |-> status]
    /\ s_pc' = "return"

\* frame.get_frame: the frame with its effective selection
GetFrame(ts_id, frame_id) ==
    /\ s_pc = "idle"
    /\ IF ts_id \notin DOMAIN tilt_series \/ FindFrame(tilt_series[ts_id], frame_id) = None
       THEN Answer("get_frame", 404) /\ UNCHANGED g_ret
       ELSE LET ts == tilt_series[ts_id]
                frame == TheVal(FindFrame(ts, frame_id))
                effective_selected ==
                    GetFrameOverride(frame_overrides, ts.mdocPath, frame_id, frame.selected)
            IN  /\ g_ret' = Some([mdocPath |-> ts.mdocPath,
                                  zIndex |-> frame.zIndex,
                                  originalSelected |-> frame.selected,
                                  effectiveSelected |-> effective_selected,
                                  hasOverride |-> effective_selected # frame.selected])
                /\ Answer("get_frame", 200)
    /\ UNCHANGED <<fs, pvars, s_req, s_local, s_start, h_first, h_ids, m_scan, b_req, wvars, kvars, lvars, vvars>>

\* frame.select_frame
SelectFrame(ts_id, frame_id, selected) ==
    /\ s_pc = "idle"
    /\ IF ts_id \notin DOMAIN tilt_series \/ FindFrame(tilt_series[ts_id], frame_id) = None
       THEN Answer("select", 404) /\ UNCHANGED frame_overrides
       ELSE /\ frame_overrides' = SetFrameOverride(frame_overrides, tilt_series[ts_id].mdocPath,
                                                   Put(<<>>, frame_id, selected))
            /\ Answer("select", 200)
    /\ UNCHANGED <<fs, config, tilt_series, s_req, s_local, s_start, h_first, h_ids, wvars, kvars, lvars, vvars, mvars>>

\* frame.toggle_frame_selection
ToggleFrameSelection(ts_id, frame_id) ==
    /\ s_pc = "idle"
    /\ IF ts_id \notin DOMAIN tilt_series \/ FindFrame(tilt_series[ts_id], frame_id) = None
       THEN Answer("toggle", 404) /\ UNCHANGED frame_overrides
       ELSE LET ts == tilt_series[ts_id]
                current == GetFrameOverride(frame_overrides, ts.mdocPath, frame_id,
                                            TheVal(FindFrame(ts, frame_id)).selected)
            IN  /\ frame_overrides' = SetFrameOverride(frame_overrides, ts.mdocPath,
                                                       Put(<<>>, frame_id, ~current))
                /\ Answer("toggle", 200)
    /\ UNCHANGED <<fs, config, tilt_series, s_req, s_local, s_start, h_first, h_ids, wvars, kvars, lvars, vvars, mvars>>

\* a loop iteration whose invert negates the base value, not the staged one
BatchStepInvertBase(overrides, ts, operation, frame_id) ==
    IF FindFrame(ts, frame_id) = None THEN overrides
    ELSE CASE operation = "select" -> Put(overrides, frame_id, TRUE)
           [] operation = "deselect" -> Put(overrides, frame_id, FALSE)
           [] operation = "invert" ->
                Put(overrides, frame_id, ~TheVal(FindFrame(ts, frame_id)).selected)
           [] operation = "reset" ->
                IF frame_id \in DOMAIN overrides THEN Del(overrides, frame_id) ELSE overrides
           [] OTHER -> overrides

\* one iteration of the loop of ts.batch_frame_operations
BatchStep(overrides, ts, operation, frame_id) ==
    IF FindFrame(ts, frame_id) = None THEN overrides
    ELSE CASE operation = "select" -> Put(overrides, frame_id, TRUE)
           [] operation = "deselect" -> Put(overrides, frame_id, FALSE)
           [] operation = "invert" ->
                Put(overrides, frame_id,
                    ~Get(overrides, frame_id, TheVal(FindFrame(ts, frame_id)).selected))
           [] operation = "reset" ->
                IF frame_id \in DOMAIN overrides THEN Del(overrides, frame_id) ELSE overrides
           [] OTHER -> overrides

RECURSIVE BatchLoop(_, _, _, _)
BatchLoop(overrides, ts, operation, frame_ids) ==
    IF frame_ids = <<>> THEN overrides
    ELSE BatchLoop(BatchStep(overrides, ts, operation, Head(frame_ids)), ts, operation,
                   Tail(frame_ids))

\* ts.batch_frame_operations
BatchFrameOperations(ts_id, operation, frame_ids) ==
    /\ s_pc = "idle"
    /\ IF ts_id \notin DOMAIN tilt_series
       THEN Answer("batch", 404) /\ UNCHANGED frame_overrides
       ELSE LET ts == tilt_series[ts_id]
            IN  /\ frame_overrides' =
                       SetFrameOverride(frame_overrides, ts.mdocPath,
                           BatchLoop(GetAllOverrides(frame_overrides, ts.mdocPath), ts,
                                     operation, frame_ids))
                /\ Answer("batch", 200)
    /\ b_req' = Some([ts_id |-> ts_id, operation |-> operation, frame_ids |-> frame_ids])
    /\ UNCHANGED <<fs, config, tilt_series, s_req, s_local, s_start, h_first, h_ids, wvars, kvars, lvars, vvars,
                   m_scan, g_ret>>

\* ts.set_frame_overrides
SetFrameOverrides(ts_id, overrides) ==
    /\ s_pc = "idle"
    /\ IF ts_id \notin DOMAIN tilt_series
       THEN Answer("override", 404) /\ UNCHANGED frame_overrides
       ELSE /\ frame_overrides' = SetFrameOverride(frame_overrides,
                                                   tilt_series[ts_id].mdocPath, overrides)
            /\ Answer("override", 200)
    /\ UNCHANGED <<fs, config, tilt_series, s_req, s_local, s_start, h_first, h_ids, wvars, kvars, lvars, vvars, mvars>>

\* ts.reset_tilt_series
ResetTiltSeries(ts_id) ==
    /\ s_pc = "idle"
    /\ IF ts_id \notin DOMAIN tilt_series
       THEN Answer("reset", 404) /\ UNCHANGED frame_overrides
       ELSE /\ frame_overrides' = ClearOverrides(frame_overrides, tilt_series[ts_id].mdocPath)
            /\ Answer("reset", 200)
    /\ UNCHANGED <<fs, config, tilt_series, s_req, s_local, s_start, h_first, h_ids, wvars, kvars, lvars, vvars, mvars>>

\* mdoc.batch_save as one step; failed: an I/O error inside the writer's try
BatchSaveCall(path, selections, failed) ==
    LET written == WriteMdocWithSelections(fs, path, selections, failed)
        found == SeriesByPath(tilt_series, path) # None
    IN  /\ s_req' = [mdocPath |-> path, selections |-> selections]
        /\ s_start' = IF found
                      THEN [file |-> fs[path], bak |-> fs[BackupPath(path)],
                            ids |-> FrameIds(TheVal(SeriesByPath(tilt_series, path)).frames)]
                      ELSE NoStart
        /\ h_first' = IF found /\ Exists(fs, path) /\ h_first[path] = None
                      THEN [h_first EXCEPT ![path] = fs[path]] ELSE h_first
        /\ IF ~found
           THEN Answer("save", 404) /\ UNCHANGED <<fs, frame_overrides, tilt_series>>
           ELSE IF written.status # 200
           THEN /\ fs' = written.fs
                /\ Answer("save", written.status)
                /\ UNCHANGED <<frame_overrides, tilt_series>>
           ELSE /\ fs' = written.fs
                /\ frame_overrides' = ClearOverrides(frame_overrides, path)
                /\ tilt_series' = SeriesAfterSave(tilt_series, config, written.fs, path)
                /\ Answer("save", StatusAfterSave(config, written.fs, path))

BatchSave(path, selections, failed) ==
    /\ s_pc = "idle"
    /\ BatchSaveCall(path, selections, failed)
    /\ UNCHANGED <<config, s_local, h_ids, wvars, kvars, lvars, vvars, mvars>>

\* ts.save_tilt_series: nothing to do without overrides, else batch_save
SaveTiltSeries(ts_id, failed) ==
    /\ s_pc = "idle"
    /\ IF ts_id \notin DOMAIN tilt_series
       THEN /\ Answer("save_ts", 404)
            /\ UNCHANGED <<fs, frame_overrides, tilt_series, s_req, s_start, h_first>>
       ELSE IF GetAllOverrides(frame_overrides, tilt_series[ts_id].mdocPath) = <<>>
       THEN /\ Answer("save_ts", 200)
            /\ UNCHANGED <<fs, frame_overrides, tilt_series, s_req, s_start, h_first>>
       ELSE BatchSaveCall(tilt_series[ts_id].mdocPath,
                          GetAllOverrides(frame_overrides, tilt_series[ts_id].mdocPath), failed)
    /\ UNCHANGED <<config, s_local, h_ids, wvars, kvars, lvars, vvars, mvars>>

PNext ==
    \/ ScanProject
    \/ \E ts_id \in TsIdInputs, frame_id \in FrameIdInputs : GetFrame(ts_id, frame_id)
    \/ \E ts_id \in TsIdInputs, frame_id \in FrameIdInputs, selected \in BOOLEAN :
           SelectFrame(ts_id, frame_id, selected)
    \/ \E ts_id \in TsIdInputs, frame_id \in FrameIdInputs :
           ToggleFrameSelection(ts_id, frame_id)
    \/ \E ts_id \in TsIdInputs, operation \in Operations, frame_ids \in FrameIdLists :
           BatchFrameOperations(ts_id, operation, frame_ids)
    \/ \E ts_id \in TsIdInputs, overrides \in Selections : SetFrameOverrides(ts_id, overrides)
    \/ \E ts_id \in TsIdInputs : ResetTiltSeries(ts_id)
    \/ \E path \in MdocPaths, selections \in Selections, failed \in BOOLEAN :
           BatchSave(path, selections, failed)
    \/ \E ts_id \in TsIdInputs, failed \in BOOLEAN : SaveTiltSeries(ts_id, failed)
    \/ Return

PInit == FInit /\ WQuiet /\ KQuiet /\ LQuiet /\ VQuiet

\* scans, edits and saves, each handler running from start to end
Spec == PInit /\ [][PNext]_vars

----------------------------------------------------------------------------
(* mdoc.scan_project.  It awaits the result of each file's parse, and the   *)
(* other handlers run while it waits.                                      *)

\* set_config, the matcher, 404 when mdoc_dir does not exist, the list of
\* files; a pool of no workers raises
MdocScanBeginWith(cfg) ==
    /\ m_scan.pc = "idle"
    /\ config' = Some(cfg)
    /\ tilt_series' = <<>>
    /\ frame_overrides' = <<>>
    /\ m_scan' = IF ~DirExists(MdocDir(cfg))
                 THEN [pc |-> "done", pending |-> {}, added |-> {}, status |-> 404]
                 ELSE IF MdocFilesOn(fs) = {}
                 THEN [pc |-> "done", pending |-> {}, added |-> {}, status |-> 500]
                 ELSE [pc |-> "await", pending |-> MdocFilesOn(fs),
                       added |-> {}, status |-> 0]
    /\ UNCHANGED <<fs, svars, resp, h_first, h_ids, g_ret, b_req, wvars, kvars, lvars, vvars>>

\* the scan of the directory that exists
MdocScanBegin == MdocScanBeginWith("config")

\* one "await ... future.result": the series of the file is added, or the
\* parse or its worker failed and the file is left out; after the last file
\* the handler runs on to its return
MdocScanCollect(path, ok) ==
    /\ m_scan.pc = "await"
    /\ path \in m_scan.pending
    /\ LET parsed == ParseMdocFile(fs, path)
           got == ok /\ parsed.status = 200
       IN  /\ tilt_series' = IF got THEN AddTiltSeries(tilt_series, TheVal(parsed.ts))
                             ELSE tilt_series
           /\ m_scan' = [pc |-> IF m_scan.pending = {path} THEN "done" ELSE "await",
                         pending |-> m_scan.pending \ {path},
                         added |-> IF got THEN m_scan.added \cup {TheVal(parsed.ts)}
                                   ELSE m_scan.added,
                         status |-> IF m_scan.pending = {path} THEN 200 ELSE 0]
    /\ h_ids' = HistoryIds(h_ids, tilt_series')
    /\ UNCHANGED <<fs, config, frame_overrides, svars, resp, h_first, g_ret, b_req, wvars, kvars, lvars, vvars>>

\* the response is sent
MdocScanReturn ==
    /\ m_scan.pc = "done"
    /\ m_scan' = NoScan
    /\ UNCHANGED <<fs, pvars, svars, resp, h_first, h_ids, g_ret, b_req, wvars, kvars, lvars, vvars>>

\* the previews put into the memory cache while the project is open
RescanDatas == {[bytes |-> "png", len |-> 1]}

RNext ==
    \/ MdocScanBegin
    \/ \E path \in MdocPaths, ok \in BOOLEAN : MdocScanCollect(path, ok)
    \/ MdocScanReturn
    \/ ScanProject
    \/ \E ts_id \in TsIdInputs, frame_id \in FrameIdInputs, selected \in BOOLEAN :
           SelectFrame(ts_id, frame_id, selected)
    \/ Return
    \/ \E key \in LruKeys, data \in RescanDatas : LruPut(key, data)

RInit == FInit /\ WQuiet /\ KQuiet /\ LQuiet /\ VQuiet

\* scans, edits and cache fills, the handlers running between the awaits of
\* mdoc.scan_project
SpecR == RInit /\ [][RNext]_vars

----------------------------------------------------------------------------
(* The two scan handlers over a directory of zero, one or two mdoc files *)

MaxScanLines == 2

BatchPaths == {<<"proj", "a", ".mdoc">>, <<"proj", "b", ".mdoc">>}
BatchFiles == {c \in DiskFiles : Len(c) <= MaxScanLines}

BatchInit ==
    /\ fs \in [BatchPaths -> {None} \cup {Some(c) : c \in BatchFiles}]
    /\ config = None
    /\ tilt_series = <<>>
    /\ frame_overrides = <<>>
    /\ s_pc = "idle"
    /\ s_req = NoSave
    /\ s_local = NoLocal
    /\ s_start = NoStart
    /\ resp = NoResp
    /\ h_first = [q \in MdocPaths |-> None]
    /\ h_ids = [q \in MdocPaths |-> None]
    /\ m_scan = NoScan
    /\ g_ret = None
    /\ b_req = None
    /\ WQuiet /\ KQuiet
    /\ LQuiet
    /\ VQuiet

BatchNext ==
    \/ ScanProject
    \/ MdocScanBegin
    \/ \E path \in BatchPaths, ok \in BOOLEAN : MdocScanCollect(path, ok)
    \/ MdocScanReturn
    \/ Return

SpecB == BatchInit /\ [][BatchNext]_vars

----------------------------------------------------------------------------
(* Scan requests whose configuration names a directory that may be missing *)

GoneNext ==
    \/ \E cfg \in ScanConfigs : ScanProjectWith(cfg)
    \/ \E cfg \in ScanConfigs : MdocScanBeginWith(cfg)
    \/ \E path \in MdocPaths, ok \in BOOLEAN : MdocScanCollect(path, ok)
    \/ MdocScanReturn
    \/ \E ts_id \in TsIdInputs, frame_id \in FrameIdInputs, selected \in BOOLEAN :
           SelectFrame(ts_id, frame_id, selected)
    \/ Return

GoneInit == FInit /\ WQuiet /\ KQuiet /\ LQuiet /\ VQuiet

SpecGone == GoneInit /\ [][GoneNext]_vars

----------------------------------------------------------------------------
(* Scans of a directory with subdirectories: two files of the same name in *)
(* different subdirectories, and a file of another name                    *)

SubPaths ==
    {<<"proj/x", "a", ".mdoc">>, <<"proj/y", "a", ".mdoc">>, <<"proj/y", "b", ".mdoc">>}
SubFiles == {c \in DiskFiles : Len(c) = 1}

SubInit ==
    /\ fs \in [SubPaths -> {None} \cup {Some(c) : c \in SubFiles}]
    /\ config = None
    /\ tilt_series = <<>>
    /\ frame_overrides = <<>>
    /\ s_pc = "idle"
    /\ s_req = NoSave
    /\ s_local = NoLocal
    /\ s_start = NoStart
    /\ resp = NoResp
    /\ h_first = [q \in MdocPaths |-> None]
    /\ h_ids = [q \in MdocPaths |-> None]
    /\ m_scan = NoScan
    /\ g_ret = None
    /\ b_req = None
    /\ WQuiet /\ KQuiet
    /\ LQuiet
    /\ VQuiet

SubNext ==
    \/ ScanProject
    \/ Return

SpecSub == SubInit /\ [][SubNext]_vars

----------------------------------------------------------------------------
(* cut_key and ImageMatcher.match.  A name is a sequence of characters.     *)

MaxNameLen == 3
MaxCut == 2

Chars == {"a", "."}
Names == UNION {[1..n -> Chars] : n \in 0..MaxNameLen}
Cuts == (0 - 1)..MaxCut

\* a call returns a value or raises
Returned(v) == [ok |-> TRUE, val |-> v]
Raised(e) == [ok |-> FALSE, val |-> e]

\* an index of a Python slice, brought into 0..n
SliceIndex(i, n) ==
    IF i < 0 THEN (IF i + n < 0 THEN 0 ELSE i + n) ELSE IF i > n THEN n ELSE i

\* seq[a:b]
PySlice(seq, a, b) ==
    LET lo == SliceIndex(a, Len(seq))
        hi == SliceIndex(b, Len(seq))
    IN  IF lo < hi THEN SubSeq(seq, lo + 1, hi) ELSE <<>>

\* cut_key without its two checks
CutKeyUnchecked(filename, prefix_cut, suffix_cut) ==
    Returned(PySlice(filename, prefix_cut, Len(filename) - suffix_cut))

\* cut_key
CutKey(filename, prefix_cut, suffix_cut) ==
    IF prefix_cut < 0 \/ suffix_cut < 0 THEN Raised("ValueError")
    ELSE IF prefix_cut + suffix_cut > Len(filename) THEN Raised("ValueError")
    ELSE Returned(PySlice(filename, prefix_cut, Len(filename) - suffix_cut))

\* Path(filename).stem of a name without separators: the part before the
\* last dot, when that dot is neither the first nor the last character
StemChars(filename) ==
    LET dots == {i \in DOMAIN filename : filename[i] = "."}
    IN  IF filename = <<".">> THEN <<>>
        ELSE IF dots = {} THEN filename
        ELSE IF 1 < SetMax(dots) /\ SetMax(dots) < Len(filename)
        THEN SubSeq(filename, 1, SetMax(dots) - 1)
        ELSE filename

\* the _cache of a matcher: cut keys to image paths
CacheKeys == {<<>>, <<"a">>, <<"a", ".", "a">>}
ImagePaths == {"imgs/1.mrc", "imgs/2.mrc"}
Caches == UNION {[K -> ImagePaths] : K \in SUBSET CacheKeys}

\* ImageMatcher.match
MatcherMatch(cache, prefix_cut, suffix_cut, filename) ==
    LET key == CutKey(filename, prefix_cut, suffix_cut)
        key_no_ext == CutKey(StemChars(filename), prefix_cut, suffix_cut)
    IN  IF ~key.ok THEN key
        ELSE IF key.val \in DOMAIN cache THEN Returned(Some(cache[key.val]))
        ELSE IF ~key_no_ext.ok THEN key_no_ext
        ELSE IF key_no_ext.val \in DOMAIN cache THEN Returned(Some(cache[key_no_ext.val]))
        ELSE Returned(None)

CutInputs ==
    {[op |-> "cut_key", filename |-> n, prefix_cut |-> p, suffix_cut |-> s, cache |-> <<>>] :
        n \in Names, p \in Cuts, s \in Cuts}
\* a matcher whose cache was built has cuts that are not negative
MatchInputs ==
    {[op |-> "match", filename |-> n, prefix_cut |-> p, suffix_cut |-> s, cache |-> c] :
        n \in Names, p \in 0..MaxCut, s \in 0..MaxCut, c \in Caches}

KInit ==
    /\ k_pc = "start"
    /\ k_in \in CutInputs \cup MatchInputs
    /\ k_out = <<>>
    /\ WQuiet
    /\ FQuiet
    /\ LQuiet
    /\ VQuiet

CutKeyCall ==
    /\ k_pc = "start"
    /\ k_in.op = "cut_key"
    /\ k_out' = CutKey(k_in.filename, k_in.prefix_cut, k_in.suffix_cut)
    /\ k_pc' = "done"
    /\ UNCHANGED <<k_in, wvars, fvars, lvars, vvars>>

MatchCall ==
    /\ k_pc = "start"
    /\ k_in.op = "match"
    /\ k_out' = MatcherMatch(k_in.cache, k_in.prefix_cut, k_in.suffix_cut, k_in.filename)
    /\ k_pc' = "done"
    /\ UNCHANGED <<k_in, wvars, fvars, lvars, vvars>>

KNext == CutKeyCall \/ MatchCall

SpecK == KInit /\ [][KNext]_vars

----------------------------------------------------------------------------
(* mdoc.backup_delete, one file operation at a time *)

\* a removal that forgets the series
RemoveSeriesKeepsAll(series, path) == series

\* remove_tilt_series_by_mdoc_path: the series part
RemoveSeriesByMdocPath(series, path) ==
    [id \in {x \in DOMAIN series : series[x].mdocPath # path} |-> series[id]]

\* raise HTTPException(status_code=409, ...) of backup_delete
BackupDeleteConflict == 409

\* backup_delete up to the existence check
BackupDeleteBegin(path) ==
    /\ s_pc = "idle"
    /\ s_req' = [mdocPath |-> path, selections |-> <<>>]
    /\ IF ~Exists(fs, path)
       THEN /\ resp' = [op |-> "backup_delete", status |-> 404]
            /\ s_pc' = "return"
            /\ UNCHANGED s_start
       ELSE /\ s_pc' = "bd_copy"
            /\ s_start' = [file |-> fs[path], bak |-> fs[BackupPath(path)],
                           ids |-> IF SeriesByPath(tilt_series, path) = None THEN <<>>
                                   ELSE FrameIds(TheVal(SeriesByPath(tilt_series, path)).frames)]
            /\ UNCHANGED resp
    /\ UNCHANGED <<fs, pvars, s_local, h_first, h_ids, wvars, kvars, lvars, vvars, mvars>>

\* shutil.copy2(mdoc_path, backup): the whole file, or the copy fails before
\* the backup is opened or after a part of it is written
BackupDeleteCopy ==
    /\ s_pc = "bd_copy"
    /\ \/ /\ fs' = CopyFile(fs, s_req.mdocPath, BackupPath(s_req.mdocPath))
          /\ s_pc' = "bd_unlink"
          /\ UNCHANGED resp
       \/ /\ \E written \in Prefixes(Content(fs, s_req.mdocPath)) :
                 fs' \in {fs, [fs EXCEPT ![BackupPath(s_req.mdocPath)] = Some(written)]}
          /\ resp' = [op |-> "backup_delete", status |-> BackupDeleteConflict]
          /\ s_pc' = "return"
    /\ UNCHANGED <<pvars, s_req, s_local, s_start, h_first, h_ids, wvars, kvars, lvars, vvars, mvars>>

\* mdoc_path.unlink()
BackupDeleteUnlink ==
    /\ s_pc = "bd_unlink"
    /\ \E ok \in BOOLEAN :
         IF ok
         THEN /\ fs' = [fs EXCEPT ![s_req.mdocPath] = None]
              /\ s_pc' = "bd_remove"
              /\ UNCHANGED resp
         ELSE /\ resp' = [op |-> "backup_delete", status |-> BackupDeleteConflict]
              /\ s_pc' = "return"
              /\ UNCHANGED fs
    /\ UNCHANGED <<pvars, s_req, s_local, s_start, h_first, h_ids, wvars, kvars, lvars, vvars, mvars>>

\* remove_tilt_series_by_mdoc_path and the response
BackupDeleteRemove ==
    /\ s_pc = "bd_remove"
    /\ tilt_series' = RemoveSeriesByMdocPath(tilt_series, s_req.mdocPath)
    /\ frame_overrides' = ClearOverrides(frame_overrides, s_req.mdocPath)
    /\ resp' = [op |-> "backup_delete", status |-> 200]
    /\ s_pc' = "return"
    /\ UNCHANGED <<fs, config, s_req, s_local, s_start, h_first, h_ids, wvars, kvars, lvars, vvars, mvars>>

DNext ==
    \/ ScanProject
    \/ \E ts_id \in TsIdInputs, frame_id \in FrameIdInputs, selected \in BOOLEAN :
           SelectFrame(ts_id, frame_id, selected)
    \/ \E path \in MdocPaths, selections \in Selections, failed \in BOOLEAN :
           BatchSave(path, selections, failed)
    \/ \E path \in MdocPaths : BackupDeleteBegin(path)
    \/ BackupDeleteCopy
    \/ BackupDeleteUnlink
    \/ BackupDeleteRemove
    \/ Return

DInit == FInit /\ WQuiet /\ KQuiet /\ LQuiet /\ VQuiet

\* scans, edits, saves and backup-and-delete
SpecD == DInit /\ [][DNext]_vars

----------------------------------------------------------------------------
(* Harness of the writer and the parser as functions of a file *)

WInit ==
    /\ w_pc = "start"
    /\ w_lines \in Files
    /\ w_sel \in Selections
    /\ w_out = <<>>
    /\ w_before = <<>>
    /\ w_after = <<>>
    /\ KQuiet
    /\ FQuiet
    /\ LQuiet
    /\ VQuiet

WWrite ==
    /\ w_pc = "start"
    /\ w_out' = FinalLines(w_lines, w_sel)
    /\ w_before' = ParseFrames(w_lines)
    /\ w_pc' = "written"
    /\ UNCHANGED <<w_lines, w_sel, w_after, kvars, fvars, lvars, vvars>>

WReparse ==
    /\ w_pc = "written"
    /\ w_after' = ParseFrames(w_out)
    /\ w_pc' = "parsed"
    /\ UNCHANGED <<w_lines, w_sel, w_out, w_before, kvars, fvars, lvars, vvars>>

WNext == WWrite \/ WReparse

SpecW == WInit /\ [][WNext]_vars

----------------------------------------------------------------------------
(* parse_mdoc_file on its own, over files that also hold SubFramePath lines *)

ParserFiles == UNION {[1..n -> Lines \cup SubFrameLines] : n \in 0..MaxLines}

ParseInit ==
    /\ w_pc = "start"
    /\ w_lines \in ParserFiles
    /\ w_sel = <<>>
    /\ w_out = <<>>
    /\ w_before = <<>>
    /\ w_after = <<>>
    /\ KQuiet
    /\ FQuiet
    /\ LQuiet
    /\ VQuiet

\* frames of parse_mdoc_file(w_lines)
ParseRun ==
    /\ w_pc = "start"
    /\ w_before' = ParseFrames(w_lines)
    /\ w_pc' = "parsed"
    /\ UNCHANGED <<w_lines, w_sel, w_out, w_after, kvars, fvars, lvars, vvars>>

ParseNext == ParseRun

SpecParse == ParseInit /\ [][ParseNext]_vars

----------------------------------------------------------------------------
(* The frames of a file as the claims about the writer speak of them: a    *)
(* frame is a marker line and the lines up to the next marker line.        *)

MarkerPositions(f) == {i \in DOMAIN f : StartsWith(f[i], "[ZValue")}

\* the lines before the first marker line
HeaderOf(f) ==
    IF MarkerPositions(f) = {} THEN f ELSE SubSeq(f, 1, SetMin(MarkerPositions(f)) - 1)

\* the marker position that owns line i (0 for a header line)
OwnerOf(f, i) ==
    LET before == {j \in MarkerPositions(f) : j <= i}
    IN  IF before = {} THEN 0 ELSE SetMax(before)

\* the lines of the frame opened at marker position m
FrameBlock(f, m) == SelectSeq([i \in DOMAIN f |-> <<i, f[i]>>], LAMBDA e : OwnerOf(f, e[1]) = m)

RECURSIVE SortedSeq(_)
SortedSeq(S) == IF S = {} THEN <<>> ELSE <<SetMin(S)>> \o SortedSeq(S \ {SetMin(S)})

\* the frames of f in file order, each as its sequence of lines
FrameBlocks(f) ==
    LET ms == SortedSeq(MarkerPositions(f))
    IN  [k \in DOMAIN ms |-> [j \in DOMAIN FrameBlock(f, ms[k]) |-> FrameBlock(f, ms[k])[j][2]]]

\* a marker line whose identifier the map does not send to false
NotDeselected(line, selections) ==
    ParseZ(line) = None \/ Get(selections, TheVal(ParseZ(line)), TRUE)

\* f restricted to the positions in P, in order
RestrictTo(f, P) ==
    LET ps == SortedSeq(P) IN [k \in DOMAIN ps |-> f[ps[k]]]

\* C1: the frames of the written file are the original frames whose marker
\* identifier is not mapped to false, in the original order, each with its
\* original lines.
C1_FramesAreKeptFrames ==
    w_pc # "start" =>
        FrameBlocks(w_out) =
            SelectSeq(FrameBlocks(w_lines), LAMBDA b : NotDeselected(b[1], w_sel))

\* C2: the written file is the header (the lines before the first marker)
\* followed by the lines of the kept frames, and nothing else: no frame line
\* enters the header and no line of a dropped frame is written.
C2_HeaderThenKeptFrames ==
    w_pc # "start" =>
        /\ w_out = RestrictTo(w_lines,
                     {i \in DOMAIN w_lines :
                        \/ OwnerOf(w_lines, i) = 0
                        \/ NotDeselected(w_lines[OwnerOf(w_lines, i)], w_sel)})
        /\ HeaderOf(w_out) = HeaderOf(w_lines)

\* C3: writing with an all-true (or empty) map and parsing again yields the
\* same number of frames with the same identifiers in the same order.
C3_RoundTripKeepsIds ==
    (w_pc = "parsed" /\ \A z \in DOMAIN w_sel : w_sel[z]) =>
        FrameIds(w_after) = FrameIds(w_before)
RECURSIVE IsSubseq(_, _)
\* a is b with some elements left out
IsSubseq(a, b) ==
    IF a = <<>> THEN TRUE
    ELSE IF b = <<>> THEN FALSE
    ELSE IF Head(a) = Head(b) THEN IsSubseq(Tail(a), Tail(b))
    ELSE IsSubseq(a, Tail(b))

\* a save has just returned success
SaveSucceeded == s_pc = "return" /\ resp.op = "save" /\ resp.status = 200

\* C4: every frame a series holds carries an identifier of the first parse
\* of its file, in that order, and a successful save whose selections
\* deselect no frame of the series leaves its sequence of identifiers as it
\* was.
C4_IdentifiersSurviveSaves ==
    /\ \A id \in DOMAIN tilt_series :
           h_ids[tilt_series[id].mdocPath] # None =>
               IsSubseq(FrameIds(tilt_series[id].frames),
                        TheVal(h_ids[tilt_series[id].mdocPath]))
    /\ (SaveSucceeded /\ \A k \in DOMAIN s_start.ids :
                             Get(s_req.selections, s_start.ids[k], TRUE)) =>
           FrameIds(TheVal(SeriesByPath(tilt_series, s_req.mdocPath)).frames) = s_start.ids

SaveFailed == s_pc = "return" /\ s_local.error # ""

\* C6 as stated: a failed write reports 409, leaves no temporary file, and
\* leaves the original and the backup as they were before the call.
C6_FailedSaveTouchesNothing ==
    SaveFailed =>
        /\ resp.status = 409
        /\ ~Exists(fs, TempPath(s_req.mdocPath))
        /\ fs[s_req.mdocPath] = s_start.file
        /\ fs[BackupPath(s_req.mdocPath)] = s_start.bak

\* C6 as amended: a failed write reports 409, leaves no temporary file and
\* leaves the original as it was; a backup that existed is unchanged, and
\* when there was none the failed call has made it, with the original's lines.
C6_FailedSaveKeepsOriginal ==
    SaveFailed =>
        /\ resp.status = 409
        /\ ~Exists(fs, TempPath(s_req.mdocPath))
        /\ fs[s_req.mdocPath] = s_start.file
        /\ fs[BackupPath(s_req.mdocPath)] =
               IF s_start.bak # None THEN s_start.bak ELSE s_start.file

\* a first save that failed in the replace, after the temporary file was written
C6_Witness ==
    SaveFailed /\ s_local.error = "replace" /\ s_start.bak = None

\* C7: while a save runs, the mdoc path holds the complete lines from before
\* the save or the complete new lines; the new lines are complete in the
\* temporary file before the replace.
C7_FileIsOldOrNew ==
    (s_pc # "idle" /\ s_start.file # None) =>
        LET new == Some(FinalLines(TheVal(s_start.file), s_req.selections))
        IN  /\ fs[s_req.mdocPath] \in {s_start.file, new}
            /\ s_pc = "replace" => fs[TempPath(s_req.mdocPath)] = new
            /\ s_pc = "finish" => fs[s_req.mdocPath] = new

\* the replace has put new lines, fewer than before, in place
C7_Witness ==
    /\ s_pc = "finish"
    /\ fs[s_req.mdocPath] # s_start.file
    /\ ~Exists(fs, TempPath(s_req.mdocPath))

\* the requests of one key, and the keys whose frame exists and can be read
RequestsOf(k) == {r \in Requests : req[r].key = k}
Computable(k) ==
    /\ ~InvalidParams(k)
    /\ k[1] \in DOMAIN tilt_series
    /\ FindFrame(tilt_series[k[1]], k[2]) # None
    /\ ReadImage(TheVal(FindFrame(tilt_series[k[1]], k[2])).mrcPath) # None

\* a request that waits on a future nobody will settle any more: the request
\* that made the future has left the computation without a result
WaitsInVain(r) ==
    /\ req[r].pc = "await"
    /\ req[req[r].wait].pc \in {"cleanup", "done"}
    /\ ~futures[req[r].wait].done

\* C8: when several requests are made for one key whose preview can be
\* computed, the preview is generated at most once, no request is left
\* waiting for a result that will not come, and once all of them have
\* returned the preview was generated exactly once and they all returned the
\* same PNG bytes.
C8_SingleFlight ==
    \A k \in DOMAIN cold_runs :
        (Computable(k) /\ Cardinality(RequestsOf(k)) >= 2) =>
            /\ cold_runs[k] <= 1
            /\ \A r \in RequestsOf(k) : ~WaitsInVain(r)
            /\ (\A r \in RequestsOf(k) : req[r].pc = "done") =>
                   /\ cold_runs[k] = 1
                   /\ \A r1, r2 \in RequestsOf(k) :
                          /\ req[r1].out = req[r2].out
                          /\ TheVal(req[r1].out).status = 200

RECURSIVE SumSizes(_)
SumSizes(entries) ==
    IF entries = <<>> THEN 0 ELSE Head(entries).size + SumSizes(Tail(entries))

\* C10: the sizes of the resident entries never add up to more than the
\* byte budget.
C10_ResidentSizeWithinBudget == SumSizes(png_cache.cache) <= LruMaxSize

\* the keys of the resident entries, in the order the cache holds them
ResidentKeys(c) == [i \in DOMAIN c.cache |-> c.cache[i].key]

\* the last n elements of a sequence
LastN(q, n) == SubSeq(q, Len(q) - n + 1, Len(q))

\* the put of this step took resident entries out that it did not have to:
\* the entries kept, the latest entry taken out and the new entry fit together
EvictedTooMany ==
    /\ png_cache'.cache # <<>>
    /\ LET new == png_cache'.cache[Len(png_cache'.cache)]
           old == RemoveExisting(png_cache, new.key)
           kept == Len(png_cache'.cache) - 1
       IN  /\ Len(old.cache) > kept
           /\ SumSizes(LastN(old.cache, kept + 1)) + new.size <= LruMaxSize

\* C11: the resident entries are the most recently used keys, held in order
\* of use (a hit or a put makes a key the latest), so a put evicts the least
\* recently used entries first; and it evicts no more than it must to fit
\* the new entry.
C11_EvictsLeastRecentlyUsed ==
    /\ [](/\ Len(png_cache.cache) <= Len(l_used)
          /\ ResidentKeys(png_cache) = LastN(l_used, Len(png_cache.cache)))
    /\ [][~EvictedTooMany]_vars

\* an entry was evicted while a more recently used one stayed resident
C11_Witness ==
    /\ Len(png_cache.cache) >= 2
    /\ Len(l_used) > Len(png_cache.cache)

\* the identifiers a save keeps: those its selections do not map to false
KeptIds(ids, selections) == SelectSeq(ids, LAMBDA z : Get(selections, z, TRUE))

\* C12: after a save that succeeded, the overlay has no entry for the saved
\* path, and the series held for the path is the parse of the file as it now
\* is, with exactly the frames the selections did not map to false, in order.
C12_SaveClearsAndReparses ==
    SaveSucceeded =>
        /\ s_req.mdocPath \notin DOMAIN frame_overrides
        /\ SeriesByPath(tilt_series, s_req.mdocPath) # None
        /\ SeriesByPath(tilt_series, s_req.mdocPath) = ParseMdocFile(fs, s_req.mdocPath).ts
        /\ FrameIds(TheVal(SeriesByPath(tilt_series, s_req.mdocPath)).frames)
               = KeptIds(s_start.ids, s_req.selections)

\* the series map that holds exactly the given series, each under its id
HoldsExactly(series, parsed) ==
    /\ DOMAIN series = {ts.id : ts \in parsed}
    /\ \A ts \in parsed : series[ts.id] = ts

\* the series the files of the disk parse to
ParsedOnDisk ==
    {TheVal(ParseMdocFile(fs, q).ts) : q \in {x \in MdocPaths : ParseMdocFile(fs, x).status = 200}}

\* a step of a scan: of project.scan_project or of mdoc.scan_project
ScanStep == (resp.op # "scan" /\ resp'.op = "scan") \/ m_scan' # m_scan

\* the step in which project.scan_project completes, and the one in which
\* mdoc.scan_project does
ProjectScanCompletes == resp.op # "scan" /\ resp'.op = "scan" /\ resp'.status = 200
MdocScanCompletes == m_scan.pc = "await" /\ m_scan'.pc = "done" /\ m_scan'.status = 200

\* C13: when a scan completes, the series map holds exactly the series that
\* scan parsed and the overlay is empty; and no step of a scan changes the
\* memory cache.
C13_ScanReplacesState ==
    [][/\ ProjectScanCompletes =>
              (HoldsExactly(tilt_series', ParsedOnDisk') /\ frame_overrides' = <<>>)
       /\ MdocScanCompletes =>
              (HoldsExactly(tilt_series', m_scan'.added) /\ frame_overrides' = <<>>)
       /\ ScanStep => png_cache' = png_cache]_vars

\* what the overlay says of a frame: the staged value, or the base value
\* where the path or the identifier has no entry
StagedOr(path, z_index, original) ==
    IF path \in DOMAIN frame_overrides /\ z_index \in DOMAIN frame_overrides[path]
    THEN frame_overrides[path][z_index]
    ELSE original

\* C14: get_frame_override returns the staged value where the overlay has an
\* entry for the path and the identifier and the original value elsewhere,
\* get_frame answers with that value, and the read leaves the overlay as it
\* was.
C14_OverrideLookup ==
    /\ [](\A path \in MdocPaths, z_index \in FrameIdInputs, original \in BOOLEAN :
              GetFrameOverride(frame_overrides, path, z_index, original)
                  = StagedOr(path, z_index, original))
    /\ []((s_pc = "return" /\ resp.op = "get_frame" /\ resp.status = 200) =>
              TheVal(g_ret).effectiveSelected
                  = StagedOr(TheVal(g_ret).mdocPath, TheVal(g_ret).zIndex,
                             TheVal(g_ret).originalSelected))
    /\ [][resp'.op = "get_frame" => frame_overrides' = frame_overrides]_vars

\* get_frame has answered with a staged value that differs from the base value
C14_Witness ==
    /\ s_pc = "return"
    /\ resp.op = "get_frame"
    /\ resp.status = 200
    /\ TheVal(g_ret).hasOverride
    /\ TheVal(g_ret).zIndex \in DOMAIN frame_overrides[TheVal(g_ret).mdocPath]

\* the overlay entry of an identifier, and the effective selection of a frame
EntryOf(overrides, path, z_index) ==
    IF path \in DOMAIN overrides /\ z_index \in DOMAIN overrides[path]
    THEN Some(overrides[path][z_index])
    ELSE None
EffectiveOf(overrides, ts, z_index) ==
    IF EntryOf(overrides, ts.mdocPath, z_index) # None
    THEN TheVal(EntryOf(overrides, ts.mdocPath, z_index))
    ELSE TheVal(FindFrame(ts, z_index)).selected

\* the step in which batch_frame_operations answers a request it carried out
BatchAnswered == s_pc = "idle" /\ resp'.op = "batch" /\ resp'.status = 200

\* how often an identifier is listed
Occurrences(frame_ids, z_index) == Cardinality({i \in DOMAIN frame_ids : frame_ids[i] = z_index})

\* what a batch operation is to make of a frame listed once
BatchTarget(operation, previous, base) ==
    CASE operation = "select" -> TRUE
      [] operation = "deselect" -> FALSE
      [] operation = "invert" -> ~previous
      [] operation = "reset" -> base

\* the frames a batch does not list, and the identifiers that are no frames,
\* keep their overlay entries
BatchLeavesOthers ==
    LET r == TheVal(b_req')
        ts == tilt_series[r.ts_id]
    IN  \A z \in FrameIdInputs :
            (Occurrences(r.frame_ids, z) = 0 \/ FindFrame(ts, z) = None) =>
                EntryOf(frame_overrides', ts.mdocPath, z) = EntryOf(frame_overrides, ts.mdocPath, z)

\* C15 as stated: every listed frame ends at the value of the operation, an
\* inverted one at the negation of its previous effective value; identifiers
\* that are no frames are skipped and unlisted frames are unchanged.
C15_BatchSetsListedFrames ==
    [][BatchAnswered =>
          /\ BatchLeavesOthers
          /\ LET r == TheVal(b_req')
                 ts == tilt_series[r.ts_id]
             IN  \A z \in FrameIdInputs :
                     (Occurrences(r.frame_ids, z) > 0 /\ FindFrame(ts, z) # None) =>
                         EffectiveOf(frame_overrides', ts, z)
                             = BatchTarget(r.operation, EffectiveOf(frame_overrides, ts, z),
                                           TheVal(FindFrame(ts, z)).selected)]_vars

\* C15 amended: as stated, but invert negates a frame once for each time it
\* is listed, so a frame listed an even number of times keeps its effective
\* value.
C15_BatchAppliesPerOccurrence ==
    [][BatchAnswered =>
          /\ BatchLeavesOthers
          /\ LET r == TheVal(b_req')
                 ts == tilt_series[r.ts_id]
             IN  \A z \in FrameIdInputs :
                     (Occurrences(r.frame_ids, z) > 0 /\ FindFrame(ts, z) # None) =>
                         EffectiveOf(frame_overrides', ts, z)
                             = IF r.operation = "invert" /\ Occurrences(r.frame_ids, z) % 2 = 0
                               THEN EffectiveOf(frame_overrides, ts, z)
                               ELSE BatchTarget(r.operation, EffectiveOf(frame_overrides, ts, z),
                                                TheVal(FindFrame(ts, z)).selected)]_vars

\* an invert has been answered that listed a staged frame and an identifier
\* that is no frame
C15_Witness ==
    /\ s_pc = "return"
    /\ resp.op = "batch"
    /\ resp.status = 200
    /\ TheVal(b_req).operation = "invert"
    /\ LET ts == tilt_series[TheVal(b_req).ts_id]
       IN  /\ \E i \in DOMAIN TheVal(b_req).frame_ids :
                  FindFrame(ts, TheVal(b_req).frame_ids[i]) = None
           /\ \E i \in DOMAIN TheVal(b_req).frame_ids :
                  /\ FindFrame(ts, TheVal(b_req).frame_ids[i]) # None
                  /\ EffectiveOf(frame_overrides, ts, TheVal(b_req).frame_ids[i]) = FALSE

\* backup_delete is at work on a file, or has just answered
InBackupDelete == s_pc \in {"bd_copy", "bd_unlink", "bd_remove"} \/ resp.op = "backup_delete"
BackupDeleteSucceeded == s_pc = "return" /\ resp.op = "backup_delete" /\ resp.status = 200

\* C16: after a backup-and-delete that succeeded no series has the path and
\* the overlay has no entry for it; the file is removed only in a step before
\* which the backup holds its content, and at every step of the call the
\* content the file had is in the file or in the backup.
C16_BackupThenDelete ==
    /\ [](BackupDeleteSucceeded =>
              /\ SeriesByPath(tilt_series, s_req.mdocPath) = None
              /\ s_req.mdocPath \notin DOMAIN frame_overrides
              /\ ~Exists(fs, s_req.mdocPath)
              /\ fs[BackupPath(s_req.mdocPath)] = s_start.file)
    /\ []((InBackupDelete /\ s_start.file # None) =>
              \/ fs[s_req.mdocPath] = s_start.file
              \/ fs[BackupPath(s_req.mdocPath)] = s_start.file)
    /\ [][\A q \in MdocPaths :
              (Exists(fs, q) /\ ~Exists(fs', q)) => fs[BackupPath(q)] = fs[q]]_vars

\* a backup-and-delete has succeeded on a file that had a series and an
\* older backup of other content
C16_Witness ==
    /\ BackupDeleteSucceeded
    /\ s_start.ids # <<>>
    /\ s_start.bak # None
    /\ s_start.bak # s_start.file

\* the parameters of a request fail the check of the handler's first lines
BadParams(key) == key[3] \notin {1, 2, 4, 8} \/ key[4] \notin 1..100

\* the memory cache holds an entry of the key
Cached(key) == \E i \in DOMAIN png_cache.cache : png_cache.cache[i].key = key

\* C17: a request with a bin other than 1, 2, 4, 8 or a quality outside
\* 1..100 ends with status 400 in its first step, which changes neither the
\* in-flight table nor the memory cache nor the disk cache; such a request
\* never has an in-flight entry, a cache entry, a file or a directory.
C17_InvalidParamsBeforeIO ==
    /\ [](\A r \in DOMAIN req :
              BadParams(req[r].key) =>
                  /\ req[r].pc \in {"new", "done"}
                  /\ req[r].pc = "done" => req[r].out = Some(HttpError(400))
                  /\ req[r].key \notin DOMAIN inflight
                  /\ ~Cached(req[r].key)
                  /\ disk[req[r].key] = None
                  /\ ~futures[r].made)
    /\ [][\A r \in DOMAIN req :
              (BadParams(req[r].key) /\ req'[r] # req[r]) =>
                  /\ inflight' = inflight
                  /\ lock' = lock
                  /\ png_cache' = png_cache
                  /\ disk' = disk
                  /\ png_dirs' = png_dirs]_vars

\* a request with bad parameters has been refused while another request had
\* its entry in the in-flight table and a directory of the disk cache existed
C17_Witness ==
    /\ \E r \in DOMAIN req : BadParams(req[r].key) /\ req[r].pc = "done"
    /\ inflight # <<>>
    /\ png_dirs # {}

\* the bytes the cold path generates for a key whose frame can be read
GeneratedBytes(k) ==
    EncodePng(TheVal(ReadImage(TheVal(FindFrame(tilt_series[k[1]], k[2])).mrcPath)), k[3])

\* C18: a request whose cold path has read and processed the image and whose
\* write to the disk cache failed returns status 200 with the generated bytes.
C18_DiskWriteFailureTolerated ==
    \A r \in DOMAIN req :
        req[r].wrote = "failed" => req[r].out = Some(Response(GeneratedBytes(req[r].key)))

\* a key with valid parameters whose series or frame is not in the project
\* state, or whose frame has an image that cannot be read
Missing(k) == ~BadParams(k) /\ ~Computable(k)

\* the request ends its handler: the step through the finally block
Leaves(r) == req[r].pc = "cleanup" /\ req'[r].pc = "done"

FormatMarkers(f) == {i \in DOMAIN f : f[i][1] = "[ZValue ="}
FrameLinesOf(f, m) == {i \in DOMAIN f : i > m /\ \A j \in FormatMarkers(f) : ~(m < j /\ j <= i)}

\* the value of the last line with the given key in the frame opened at m
LastValue(f, m, key) ==
    LET ps == {i \in FrameLinesOf(f, m) : f[i][1] = key}
    IN  IF ps = {} THEN None ELSE Some(f[SetMax(ps)][2])

\* the k-th frame is the frame of the marker at position m: the identifier is
\* the integer of the marker, selected is true, and angle and path come from
\* the lines between this marker and the next one only
FrameOfMarker(frame, f, m) ==
    /\ ParseZ(f[m]) = Some(frame.zIndex)
    /\ frame.selected
    /\ frame.angle = (IF LastValue(f, m, "TiltAngle =") = None THEN 0
                      ELSE FloatOf(TheVal(LastValue(f, m, "TiltAngle ="))))
    /\ frame.mrcPath = (IF LastValue(f, m, "SubFramePath =") = None THEN ""
                        ELSE MatchedPath(TheVal(LastValue(f, m, "SubFramePath ="))))

\* C20: the parser returns one frame for each marker line "[ZValue = N]" of
\* the file, in file order (so lines before the first marker make no frame
\* and the last frame is closed at the end of input); each frame carries the
\* integer of its marker and selected = true, and its angle and image path
\* come from the TiltAngle and SubFramePath lines of its own block only.
C20_OneFramePerMarker ==
    w_pc = "parsed" =>
        LET ms == SortedSeq(FormatMarkers(w_lines))
        IN  /\ Len(w_before) = Len(ms)
            /\ \A k \in DOMAIN ms : FrameOfMarker(w_before[k], w_lines, ms[k])

\* the integers the markers of a file carry, at the markers that carry one
AuthoredIds(f) == {i \in FormatMarkers(f) : ParseZ(f[i]) # None}

\* C21: the frames of one parsed series have pairwise different identifiers,
\* also when a marker without an integer gets its identifier from the
\* fallback counter (stated for files whose markers carry pairwise different
\* integers, so that a repeated identifier can only come from the fallback).
C21_IdentifiersUnique ==
    (/\ w_pc = "parsed"
     /\ \A i, j \in AuthoredIds(w_lines) : i # j => ParseZ(w_lines[i]) # ParseZ(w_lines[j])) =>
        \A a, b \in DOMAIN w_before : a # b => w_before[a].zIndex # w_before[b].zIndex

\* the steps in which project.scan_project and mdoc.scan_project end, with
\* whatever status
ProjectScanEnds == resp.op # "scan" /\ resp'.op = "scan"
MdocScanEnds == m_scan.pc # "done" /\ m_scan'.pc = "done"

\* the mdoc files whose parse fails, and the series of those whose parse succeeds
FailingFiles == {q \in MdocFilesOn(fs) : ParseMdocFile(fs, q).status # 200}
ParsedFiles ==
    {TheVal(ParseMdocFile(fs, q).ts) : q \in {x \in MdocFilesOn(fs) : ParseMdocFile(fs, x).status = 200}}

\* the series map holds each of the given series under its id
Ingested(series, parsed) == \A ts \in parsed : ts.id \in DOMAIN series /\ series[ts.id] = ts

\* C22: a scan ends with status 200 for any number of files, zero included;
\* the series map then holds every series the scan parsed, a file whose
\* parse fails is in neither the result nor the series map, and
\* project.scan_project has parsed every file whose parse does not fail.
C22_ScanSkipsFailedFiles ==
    /\ [][/\ ProjectScanEnds =>
                 (resp'.status = 200 /\ HoldsExactly(tilt_series', ParsedFiles'))
          /\ MdocScanEnds =>
                 (/\ m_scan'.status = 200
                  /\ m_scan'.added \subseteq ParsedFiles'
                  /\ Ingested(tilt_series', m_scan'.added))]_vars
    /\ [](\A q \in FailingFiles : SeriesByPath(tilt_series, q) = None)

\* mdoc.scan_project has cleared the state and has not yet ingested the
\* series of its last file
InScanWindow == m_scan.pc = "await"

\* another handler (an edit, a save or a scan) runs from its start to its
\* response: it reads the series map and the overlay and may change them
HandlerRuns == s_pc = "idle" /\ s_pc' = "return"

\* C23: between the step in which a scan clears the state and the step in
\* which it ingests its last series, no other handler runs, so none reads or
\* changes the series map or the overlay in that window.
C23_ScanWindowExclusive ==
    [][InScanWindow =>
           /\ ~HandlerRuns
           /\ (m_scan' = m_scan => pvars' = pvars)]_vars

\* a call of cut_key, or of match, has returned or raised
CutDone == k_pc = "done" /\ k_in.op = "cut_key"
MatchDone == k_pc = "done" /\ k_in.op = "match"

\* the cuts are not negative and together not longer than the name
ValidCuts(name, p, s) == p >= 0 /\ s >= 0 /\ p + s <= Len(name)

\* C24: with p, s >= 0 and p + s <= length(name), cut_key returns the name
\* without its first p and its last s characters, of length
\* length(name) - p - s; with a negative cut or p + s beyond the length it
\* raises and returns nothing.
C24_CutKeyRemovesEnds ==
    CutDone =>
        LET name == k_in.filename
            p == k_in.prefix_cut
            s == k_in.suffix_cut
        IN  IF ValidCuts(name, p, s)
            THEN /\ k_out.ok
                 /\ Len(k_out.val) = Len(name) - p - s
                 /\ \A i \in 1..Len(k_out.val) : k_out.val[i] = name[p + i]
            ELSE ~k_out.ok

\* a name of three characters has lost its first and its last character
C24_Witness ==
    /\ CutDone
    /\ Len(k_in.filename) = 3
    /\ k_in.prefix_cut = 1
    /\ k_in.suffix_cut = 1
    /\ k_out = Returned(<<k_in.filename[2]>>)

\* what the cache holds under a key, None without an entry
Stored(cache, key) == IF key \in DOMAIN cache THEN Some(cache[key]) ELSE None

\* the name without its first p and last s characters, where the cuts fit
CutOf(name, p, s) == SubSeq(name, p + 1, Len(name) - s)

\* C25: match never raises: it returns the path stored under the cut key of
\* the filename if there is one, else the path stored under the cut key of
\* the filename without its extension if there is one, else none.
C25_MatchReturnsPathOrNone ==
    MatchDone =>
        LET name == k_in.filename
            p == k_in.prefix_cut
            s == k_in.suffix_cut
            first == IF ValidCuts(name, p, s) THEN Stored(k_in.cache, CutOf(name, p, s)) ELSE None
            second == IF ValidCuts(StemChars(name), p, s)
                      THEN Stored(k_in.cache, CutOf(StemChars(name), p, s)) ELSE None
        IN  /\ k_out.ok
            /\ k_out.val = (IF first # None THEN first ELSE second)

\* request r takes a step
Moves(r) == req'[r] # req[r]

\* the bytes the memory cache holds for a key
ResidentData(key) == png_cache.cache[CHOOSE i \in DOMAIN png_cache.cache : png_cache.cache[i].key = key].data

\* C26: a request looks at the in-flight table, then the memory cache, then
\* the disk cache, and runs the cold path last, stopping at the first hit: a
\* request that finds its key in flight waits without touching a cache; a key
\* resident in memory is answered from memory with no access to the disk
\* cache and no read of the raw image; a key on disk is answered from the
\* file without the cold path; the cold path runs only after both missed.
C26_ResolutionOrder ==
    /\ [][\A r \in DOMAIN req :
              /\ (req[r].pc = "enter" /\ Moves(r) /\ req[r].key \in DOMAIN inflight) =>
                     /\ req'[r].pc = "await"
                     /\ png_cache' = png_cache
                     /\ png_dirs' = png_dirs
                     /\ cold_runs' = cold_runs
              /\ (req[r].pc = "mem" /\ Moves(r) /\ Cached(req[r].key)) =>
                     /\ req'[r].pc = "cleanup"
                     /\ req'[r].out = Some(Response(ResidentData(req[r].key)))
                     /\ png_dirs' = png_dirs
                     /\ disk' = disk
                     /\ cold_runs' = cold_runs
              /\ (req[r].pc = "disk" /\ Moves(r) /\ disk[req[r].key] # None) =>
                     /\ req'[r].pc = "cleanup"
                     /\ req'[r].out = Some(Response(TheVal(disk[req[r].key])))
                     /\ cold_runs' = cold_runs
              /\ (Moves(r) /\ cold_runs'[req[r].key] # cold_runs[req[r].key]) =>
                     (~Cached(req[r].key) /\ disk[req[r].key] = None)]_vars
    /\ [](\A r \in DOMAIN req :
              /\ req[r].pc \in {"disk", "resolve", "read", "save"} => ~Cached(req[r].key)
              /\ req[r].pc \in {"resolve", "read", "save"} => disk[req[r].key] = None)

\* two requests for a frame whose image cannot be read have both been
\* answered with the stored file's bytes, each having looked itself (neither
\* waited for the other): the first from the disk cache, the second from
\* the memory cache, and the cold path never ran
C26_Witness ==
    \E r1, r2 \in DOMAIN req :
        /\ r1 # r2
        /\ req[r1].key = <<"a", 2, 8, 90>>
        /\ req[r2].key = req[r1].key
        /\ req[r1].pc = "done" /\ req[r2].pc = "done"
        /\ req[r1].out = Some(Response(StoredPng)) /\ req[r2].out = req[r1].out
        /\ futures[r1].made /\ futures[r2].made
        /\ Cached(req[r1].key)
        /\ cold_runs[req[r1].key] = 0

\* C27: in every state of the cache current_size is the sum of the sizes of
\* the resident entries, each entry's size is the length of its data, and no
\* key is resident twice; puts that replace a key, evictions and clear keep
\* this.
C27_AccountedSizeIsSum ==
    /\ png_cache.current_size = SumSizes(png_cache.cache)
    /\ \A i \in DOMAIN png_cache.cache : png_cache.cache[i].size = Len8(png_cache.cache[i].data)
    /\ \A i, j \in DOMAIN png_cache.cache :
           png_cache.cache[i].key = png_cache.cache[j].key => i = j

\* entries have been evicted (more keys were used since the last clear than
\* are resident) and two entries remain that fill the budget
C27_Witness ==
    /\ Len(l_used) > Len(png_cache.cache)
    /\ Len(png_cache.cache) = 2
    /\ png_cache.current_size = LruMaxSize

\* the step in which select_frame or toggle_frame_selection answers an edit
\* it carried out
EditAnswered == s_pc = "idle" /\ resp'.op \in {"select", "toggle"} /\ resp'.status = 200

\* the frames, as (series id, identifier), whose effective selection this
\* step changes
ChangedFrames ==
    {e \in UNION {{<<id, tilt_series[id].frames[k].zIndex>> : k \in DOMAIN tilt_series[id].frames} :
                     id \in DOMAIN tilt_series} :
        EffectiveOf(frame_overrides', tilt_series[e[1]], e[2])
            # EffectiveOf(frame_overrides, tilt_series[e[1]], e[2])}

\* C28: an edit of one frame's selection changes the effective selection of
\* no other frame, so at most one frame of the project changes: frames with
\* overrides staged by earlier edits keep them.
C28_EditChangesOneFrame ==
    [][EditAnswered => (tilt_series' = tilt_series /\ Cardinality(ChangedFrames) <= 1)]_vars

\* C29: a backup file that exists holds the content its metadata file had
\* before the first save, and no later step (of a save or of a
\* backup-and-delete) changes or removes it.
C29_BackupKeepsFirstContent ==
    /\ [](\A q \in MdocPaths :
              (Exists(fs, BackupPath(q)) /\ h_first[q] # None) =>
                  fs[BackupPath(q)] = h_first[q])
    /\ [][\A q \in MdocPaths :
              Exists(fs, BackupPath(q)) => fs'[BackupPath(q)] = fs[BackupPath(q)]]_vars

\* the step in which batch_save answers a save of a series it holds, with
\* success or with an error
SaveAnswered == s_pc = "idle" /\ resp'.op = "save" /\ resp'.status # 404

\* C30: when a save attempt on a series has been answered, the frames the
\* project state holds for the series are the frames the file on disk parses
\* to (none when the file has no frame), and a save answered with an error
\* has left the content of the file as it was.
C30_SaveLeavesStateAndFileAgreeing ==
    [][SaveAnswered =>
           LET path == s_req'.mdocPath
           IN  /\ SeriesByPath(tilt_series', path) # None
               /\ TheVal(SeriesByPath(tilt_series', path)).frames
                      = ParseFrames(Content(fs', path))
               /\ resp'.status # 200 => fs'[path] = fs[path]]_vars

\* the step in which a scan handler answers 404 for a missing mdoc_dir
ScanFailsNoDir ==
    \/ s_pc = "idle" /\ resp'.op = "scan" /\ resp'.status = 404
    \/ m_scan.pc = "idle" /\ m_scan'.status = 404

\* C31: a scan that fails because the mdoc directory does not exist leaves
\* the configuration, the series map and the overlay of the project state as
\* they were before the request.
C31_FailedScanKeepsState ==
    [][ScanFailsNoDir => /\ config' = config
                         /\ tilt_series' = tilt_series
                         /\ frame_overrides' = frame_overrides]_vars

\* the frames of a list whose identifier is not k, in order
FramesWithout(frames, k) ==
    LET Other(fr) == fr.zIndex # k IN SelectSeq(frames, Other)

\* the selection map deselects the one identifier k and names no other
DeselectsOnly(sel, k) == DOMAIN sel = {k} /\ ~sel[k]

\* C32: for every file, the identifiers the writer looks up in the selection
\* map are the identifiers the parser gives the frames, one for one in file
\* order; and a save whose map deselects one parsed identifier removes the
\* one frame with that identifier and leaves the others.
C32_WriterAndParserAgree ==
    w_pc = "parsed" =>
        /\ WriterLookups(w_lines) = FrameIds(w_before)
        /\ \A i \in DOMAIN w_before :
               DeselectsOnly(w_sel, w_before[i].zIndex) =>
                   /\ FrameIds(w_after) = FrameIds(FramesWithout(w_before, w_before[i].zIndex))
                   /\ Len(w_after) = Len(w_before) - 1

\* the request is between its entry into the table and the end of its
\* finally block
Processing(r) ==
    req[r].pc \in {"mem", "disk", "resolve", "read", "save", "encode", "cleanup"}

\* no preview request is active: each has not begun or has ended
NoneActive == \A r \in Requests : req[r].pc \in {"new", "done"}

\* the request made an entry and has ended with this status
EndedAsOwner(r, status) ==
    /\ req[r].pc = "done"
    /\ futures[r].made
    /\ req[r].out # None
    /\ TheVal(req[r].out).status = status

\* C33: every entry of the in-flight table belongs to a request for that key
\* that is being processed, the one that inserted it; a request that has
\* ended, with a hit, a generated preview or an error, has no entry, and the
\* table is empty whenever no preview request is active.
C33_EntryOnlyWhileProcessing ==
    /\ \A k \in DOMAIN inflight :
           /\ inflight[k] \in Requests
           /\ req[inflight[k]].key = k
           /\ futures[inflight[k]].made
           /\ Processing(inflight[k])
    /\ \A r \in Requests :
           req[r].pc = "done" => \A k \in DOMAIN inflight : inflight[k] # r
    /\ NoneActive => inflight = <<>>

\* two requests have ended as owners of an entry, one with a preview from the
\* disk cache and one with NotFound, and the table is empty
C33_Witness ==
    /\ \E r1, r2 \in Requests :
           /\ EndedAsOwner(r1, 200)
           /\ req[r1].wrote = "no"
           /\ EndedAsOwner(r2, 404)
    /\ NoneActive
    /\ inflight = <<>>

\* the step in which project.scan_project returns its list
ProjectScanReturns == s_pc = "idle" /\ resp'.op = "scan" /\ resp'.status = 200

\* ProjectState.get_tilt_series and the length of list_tilt_series
GetTiltSeries(series, ts_id) == IF ts_id \in DOMAIN series THEN Some(series[ts_id]) ELSE None
ListedCount(series) == Cardinality(DOMAIN series)

\* C34: after a scan, every series of the returned list is the series the
\* project state returns for its id, and the project state lists as many
\* series as the total the scan reports; files of the same name in different
\* subdirectories included.
C34_ReturnedListIsState ==
    [][ProjectScanReturns =>
           \A order \in FileOrders(MdocFilesOn(fs)) :
               tilt_series' = IngestAll(<<>>, fs, order) =>
                   LET returned == ScannedList(fs, order)
                   IN  /\ \A i \in DOMAIN returned :
                              GetTiltSeries(tilt_series', returned[i].id) = Some(returned[i])
                       /\ ListedCount(tilt_series') = Len(returned)]_vars

====
